---- MODULE Spec2Model ----
(***************************************************************************)
(* Response normalizer (frontend/lib/api.ts) and client-side query engine  *)
(* (frontend/app/invoices/page.tsx) of the invoice parser frontend.        *)
(*                                                                         *)
(* Decoded JSON and the values the code computes from it are JavaScript    *)
(* values, written here as tagged records, so that the code's coercions    *)
(* (truthiness, ||, isNaN, ===, != null) are computed as JavaScript        *)
(* computes them.                                                          *)
(***************************************************************************)
EXTENDS Integers, Sequences, FiniteSets, TLC

VARIABLES
    call,                \* normalizer: the operation applied and its decoded input
    result,              \* normalizer: what the operation returned or threw
    vendorName,          \* invoices page: useState(''), the vendor search field
    invoiceId,           \* invoices page: useState(''), the invoice-ID search field
    invoices,            \* invoices page: useState<Invoice[]>
    statusFilter,        \* invoices page: useState('all')
    startDate,           \* invoices page: useState('')
    endDate,             \* invoices page: useState('')
    sortField,           \* invoices page: useState('invoiceDate')
    sortOrder,           \* invoices page: useState('desc')
    currentPage,         \* invoices page: useState(1)
    itemsPerPage,        \* invoices page: useState(10)
    isLoading,           \* invoices page: useState(false)
    hasSearched,         \* invoices page: useState(false)
    searchType,          \* invoices page: useState('vendor')
    processedInvoices,   \* invoices page: the useMemo value of the last render
    paginatedInvoices,   \* invoices page: the slice shown by the last render
    file,                \* upload page: useState<File | null>(null)
    isDragging,          \* upload page: useState(false)
    isUploading,         \* upload page: useState(false)
    timers,              \* upload page: the routes of the setTimeout callbacks waiting
    route,               \* upload page: the route last given to router.push
    invoice,             \* details page: useState<Invoice | null>(null)
    detailsLoading,      \* details page: isLoading, useState(true)
    isEditing,           \* details page: useState(false)
    editedInvoice,       \* details page: useState<Invoice | null>(null)
    mounted,             \* details page: the effect of the first render has run
    toast,               \* sonner: the notifications raised by the last step
    inFlight,            \* network: the requests sent and not yet settled
    storage,             \* browser: the keys held in localStorage
    loginForm,           \* login page: the fields typed and the error shown
    screen               \* what the route renders: "login", "page" or "blank"

normVars == <<call, result>>
searchFields == <<vendorName, invoiceId>>
uploadVars == <<file, isDragging, isUploading, timers, route>>
detailsVars == <<invoice, detailsLoading, isEditing, editedInvoice, mounted>>
authVars == <<storage, loginForm, screen>>
pageVars == <<vendorName, invoiceId, invoices, statusFilter, startDate, endDate,
              sortField, sortOrder, currentPage, itemsPerPage, isLoading, hasSearched,
              searchType, processedInvoices, paginatedInvoices>>
\* everything but the call of the normalizer
uiVars == <<pageVars, uploadVars, detailsVars, authVars, toast, inFlight>>
\* everything outside the invoices page
outsidePage == <<normVars, uploadVars, detailsVars, authVars>>
vars == <<normVars, uiVars>>

----------------------------------------------------------------------------
(* JavaScript values *)

Undefined == [t |-> "undefined"]
Null == [t |-> "null"]
NaN == [t |-> "nan"]
Num(n) == [t |-> "number", n |-> n]
Str(s) == [t |-> "string", s |-> s]
Bool(b) == [t |-> "boolean", b |-> b]
Arr(elems) == [t |-> "array", elems |-> elems]

\* ToBoolean
Truthy(v) ==
    CASE v.t \in {"undefined", "null", "nan"} -> FALSE
      [] v.t = "number" -> v.n # 0
      [] v.t = "string" -> v.s # ""
      [] v.t = "boolean" -> v.b
      [] OTHER -> TRUE

\* a || b
Or(a, b) == IF Truthy(a) THEN a ELSE b

\* v != null
NotNullish(v) == v.t \notin {"undefined", "null"}

\* The strings of the model that spell a number (none but the empty string,
\* which Number() reads as 0).
IsNumericString(s) == s = ""

\* isNaN(v): v is first converted with Number()
IsNaN(v) ==
    CASE v.t \in {"nan", "undefined"} -> TRUE
      [] v.t \in {"null", "number", "boolean"} -> FALSE
      [] v.t = "string" -> ~IsNumericString(v.s)
      [] OTHER -> TRUE

\* a === b on primitives
StrictEq(a, b) == a.t # "nan" /\ b.t # "nan" /\ a = b

\* o.k where o is not null or undefined (a missing key reads as undefined)
Get(o, k) == IF o.t = "object" /\ k \in DOMAIN o THEN o[k] ELSE Undefined

\* o.k throws a TypeError on null and undefined
ReadThrows(o) == o.t \in {"undefined", "null"}

Ok(v) == [ok |-> TRUE, val |-> v, err |-> ""]
Throw(msg) == [ok |-> FALSE, val |-> Undefined, err |-> msg]
NotReturned == [ok |-> FALSE, val |-> Undefined, err |-> "(pending)"]

TypeError == "TypeError: Cannot read properties"
ErrNullResponse == "Invalid invoice data: response is null"
ErrMissingInvoiceId == "Invalid invoice data: missing InvoiceId"
ErrUnexpectedFormat == "Unexpected response format from backend"
ErrNullBody == "Backend returned null or undefined"

----------------------------------------------------------------------------
(* Array.prototype.filter *)

RECURSIVE FilterSeq(_, _)
\* the elements of s whose place the sequence of booleans keep marks, in order
FilterSeq(s, keep) ==
    IF s = <<>> THEN <<>>
    ELSE LET rest == FilterSeq(Tail(s), Tail(keep))
         IN  IF Head(keep) THEN <<Head(s)>> \o rest ELSE rest

----------------------------------------------------------------------------
(* normalizeExtractData: POST /extract *)

\* one element of backendData.Items?.map(...)
ExtractItem(item) ==
    [ t |-> "object",
      description |-> Or(Or(Get(item, "Description"), Get(item, "Name")), Str("")),
      quantity |-> Or(Get(item, "Quantity"), Num(0)),
      unitPrice |-> Or(Get(item, "UnitPrice"), Num(0)),
      amount |-> Get(item, "Amount") ]

\* (mutant) the items without an amount are filtered out before the map
ExtractItemsWithAmount(items) ==
    IF NotNullish(items)
    THEN LET kept == FilterSeq(items.elems,
                               [i \in 1..Len(items.elems) |->
                                   Truthy(Get(items.elems[i], "Amount"))])
         IN  Arr([i \in 1..Len(kept) |-> ExtractItem(kept[i])])
    ELSE Undefined

\* backendData.Items?.map(...): undefined when Items is null or undefined
ExtractItems(items) ==
    IF NotNullish(items)
    THEN Arr([i \in 1..Len(items.elems) |-> ExtractItem(items.elems[i])])
    ELSE Undefined

normalizeExtractData(backendData) ==
    IF ReadThrows(backendData) THEN Throw(TypeError)
    ELSE Ok([ t |-> "object",
              invoiceId |-> Get(backendData, "InvoiceId"),
              vendorName |-> Get(backendData, "VendorName"),
              invoiceNumber |-> Get(backendData, "InvoiceId"),
              invoiceDate |-> Get(backendData, "InvoiceDate"),
              dueDate |-> Str(""),
              totalAmount |-> Get(backendData, "InvoiceTotal"),
              currency |-> Str("USD"),
              status |-> Str("Pending"),
              subtotal |-> Or(Get(backendData, "AmountDue"), Undefined),
              taxAmount |-> Undefined,
              shippingCost |-> Or(Get(backendData, "ShippingCost"), Undefined),
              shippingAddress |-> Get(backendData, "ShippingAddress"),
              billingAddress |-> Undefined,
              billingRecipient |-> Or(Get(backendData, "CustomerName"), Undefined),
              items |-> ExtractItems(Get(backendData, "Items")) ])

\* ApiClient.extractInvoice after the body decoded: normalize backendResponse.data
extractInvoice(backendResponse) ==
    IF ReadThrows(backendResponse) THEN Throw(TypeError)
    ELSE LET n == normalizeExtractData(Get(backendResponse, "data"))
         IN  IF ~n.ok THEN n
             ELSE Ok([ t |-> "object",
                       invoiceId |-> n.val.invoiceId,
                       message |-> Str("Invoice extracted successfully"),
                       invoice |-> n.val ])

----------------------------------------------------------------------------
(* normalizeInvoiceResponse: GET /invoice/{id} and each vendor-list element *)

\* (mutant) the keep filter without the test item.Amount !== 0
KeepItemAnyAmount(item) ==
    /\ Truthy(Or(Get(item, "Description"), Get(item, "Name")))
    /\ NotNullish(Get(item, "Amount"))
    /\ ~IsNaN(Get(item, "Amount"))

\* the keep filter of itemsData.filter(...)
KeepItem(item) ==
    LET hasDescription == Or(Get(item, "Description"), Get(item, "Name"))
        hasValidAmount == /\ NotNullish(Get(item, "Amount"))
                          /\ ~IsNaN(Get(item, "Amount"))
                          /\ ~StrictEq(Get(item, "Amount"), Num(0))
    IN  Truthy(hasDescription) /\ hasValidAmount

\* the .map(...) after the filter
InvoiceItem(item) ==
    [ t |-> "object",
      description |-> Or(Or(Get(item, "Description"), Get(item, "Name")), Str("")),
      quantity |-> Or(Get(item, "Quantity"), Num(0)),
      unitPrice |-> Or(Get(item, "UnitPrice"), Num(0)),
      amount |-> Or(Get(item, "Amount"), Num(0)) ]

\* (mutant) the predicate without the unitPrice comparison
SameItemIgnoringUnitPrice(a, b) ==
    /\ StrictEq(a.description, b.description)
    /\ StrictEq(a.quantity, b.quantity)
    /\ StrictEq(a.amount, b.amount)

\* the predicate handed to self.findIndex
SameItem(a, b) ==
    /\ StrictEq(a.description, b.description)
    /\ StrictEq(a.quantity, b.quantity)
    /\ StrictEq(a.unitPrice, b.unitPrice)
    /\ StrictEq(a.amount, b.amount)

\* self.findIndex(t => SameItem(t, item)), 1-based, 0 for -1
FindIndex(self, item) ==
    IF \E j \in 1..Len(self) : SameItem(self[j], item)
    THEN CHOOSE j \in 1..Len(self) :
            /\ SameItem(self[j], item)
            /\ \A k \in 1..(j - 1) : ~SameItem(self[k], item)
    ELSE 0

\* mappedItems.filter((item, index, self) => index === self.findIndex(...))
UniqueItems(mapped) ==
    FilterSeq(mapped, [i \in 1..Len(mapped) |-> i = FindIndex(mapped, mapped[i])])

\* the items of the filter callback read item.Description: a null item throws
ItemsThrow(itemsData) == \E i \in 1..Len(itemsData) : ReadThrows(itemsData[i])

MappedItems(itemsData) ==
    LET kept == FilterSeq(itemsData, [i \in 1..Len(itemsData) |-> KeepItem(itemsData[i])])
    IN  [i \in 1..Len(kept) |-> InvoiceItem(kept[i])]

\* (mutant) the check written as response.InvoiceId == null
MissingInvoiceIdNullOnly(response) == ~NotNullish(Get(response, "InvoiceId"))

\* !response.InvoiceId
MissingInvoiceId(response) == ~Truthy(Get(response, "InvoiceId"))

normalizeInvoiceResponse(response) ==
    IF ~Truthy(response) THEN Throw(ErrNullResponse)
    ELSE IF MissingInvoiceId(response) THEN Throw(ErrMissingInvoiceId)
    ELSE LET itemsData == Or(Get(response, "Items"), Arr(<<>>)).elems
         IN  IF ItemsThrow(itemsData) THEN Throw(TypeError)
             ELSE Ok([ t |-> "object",
                       invoiceId |-> Get(response, "InvoiceId"),
                       vendorName |-> Or(Get(response, "VendorName"), Str("Unknown")),
                       invoiceNumber |-> Get(response, "InvoiceId"),
                       invoiceDate |-> Or(Get(response, "InvoiceDate"), Str("")),
                       dueDate |-> Str(""),
                       totalAmount |-> Or(Get(response, "InvoiceTotal"), Num(0)),
                       currency |-> Str("USD"),
                       status |-> Str("Pending"),
                       subtotal |-> Or(Get(response, "SubTotal"), Undefined),
                       taxAmount |-> Undefined,
                       shippingCost |-> Or(Get(response, "ShippingCost"), Undefined),
                       shippingAddress |-> Or(Get(response, "ShippingAddress"), Str("")),
                       billingAddress |-> Undefined,
                       billingRecipient |->
                           Or(Get(response, "BillingAddressRecipient"), Undefined),
                       items |-> Arr(UniqueItems(MappedItems(itemsData))) ])

\* ApiClient.getInvoiceById after the body decoded
getInvoiceById(backendResponse) ==
    IF ~Truthy(backendResponse) THEN Throw(ErrNullBody)
    ELSE normalizeInvoiceResponse(backendResponse)

----------------------------------------------------------------------------
(* ApiClient.getInvoicesByVendor after the body decoded *)

RECURSIVE FirstThrow(_)
\* the first exception of a sequence of call results (map stops at the first throw)
FirstThrow(rs) ==
    IF rs = <<>> THEN NotReturned
    ELSE IF ~Head(rs).ok THEN Head(rs) ELSE FirstThrow(Tail(rs))

\* (mutant) the elements that do not normalize are left out
MapNormalizeSkipInvalid(list) ==
    LET rs == [i \in 1..Len(list) |-> normalizeInvoiceResponse(list[i])]
        kept == FilterSeq(rs, [i \in 1..Len(rs) |-> rs[i].ok])
    IN  Ok(Arr([i \in 1..Len(kept) |-> kept[i].val]))

\* list.map(normalizeInvoiceResponse): the array of invoices, or the first throw
MapNormalize(list) ==
    LET rs == [i \in 1..Len(list) |-> normalizeInvoiceResponse(list[i])]
    IN  IF \E i \in 1..Len(rs) : ~rs[i].ok THEN FirstThrow(rs)
        ELSE Ok(Arr([i \in 1..Len(rs) |-> rs[i].val]))

\* (mutant) only invoices[0], the element the branch logs, is normalized
VendorEnvelopeFirstOnly(inner) ==
    IF ~Truthy(inner) THEN Ok(Arr(<<>>))
    ELSE IF inner.t # "array" THEN Throw(TypeError)
    ELSE IF Len(inner.elems) = 0 THEN Ok(Arr(<<>>))
    ELSE MapNormalize(<<inner.elems[1]>>)

\* the branch taken for { VendorName, TotalInvoices, invoices: [...] }
VendorEnvelope(inner) ==
    IF ~Truthy(inner) THEN Ok(Arr(<<>>))
    ELSE IF inner.t # "array" THEN Throw(TypeError)
    ELSE IF Len(inner.elems) = 0 THEN Ok(Arr(<<>>))
    ELSE MapNormalize(inner.elems)

getInvoicesByVendor(backendResponse) ==
    IF ReadThrows(backendResponse) THEN Throw(TypeError)
    ELSE IF Truthy(Get(backendResponse, "VendorName"))
            /\ Truthy(Get(backendResponse, "invoices"))
    THEN VendorEnvelope(Get(backendResponse, "invoices"))
    ELSE IF backendResponse.t = "array" THEN MapNormalize(backendResponse.elems)
    ELSE IF Truthy(Get(backendResponse, "InvoiceId"))
    THEN LET n == normalizeInvoiceResponse(backendResponse)
         IN  IF n.ok THEN Ok(Arr(<<n.val>>)) ELSE n
    ELSE Throw(ErrUnexpectedFormat)

----------------------------------------------------------------------------
(* The three operations of ApiClient from fetch to the value returned or     *)
(* the Error thrown. A settled fetch is either a rejection (the request did  *)
(* not reach the backend) or a response with a status, a status text and a   *)
(* body, which is JSON text of some value or text that is no JSON.           *)

Rejected(message) == [kind |-> "rejected", message |-> message]
Response(status, statusText, body) ==
    [kind |-> "response", status |-> status, statusText |-> statusText, body |-> body]
Json(value) == [json |-> TRUE, value |-> value, text |-> "(json)"]
NotJson(text) == [json |-> FALSE, value |-> Undefined, text |-> text]

\* response.ok
ResponseOk(http) == http.status >= 200 /\ http.status <= 299

\* the message of the TypeError a failed fetch rejects with, as Chromium,
\* Firefox and Safari word it
FetchFailureMessages ==
    {"Failed to fetch", "NetworkError when attempting to fetch resource.", "Load failed"}

\* error instanceof TypeError, for the errors of the model
IsTypeError(msg) == msg \in FetchFailureMessages \cup {TypeError}

\* error.message.includes('Failed to fetch'), for the messages of the model
IncludesFailedToFetch(msg) == msg = "Failed to fetch"

\* String.prototype.trim on the strings of the model
Trim(s) == IF s \in {" ", "  "} THEN "" ELSE s

ErrCannotConnect ==
    "Cannot connect to backend server. Please ensure the backend is running at http://localhost:8080"
ErrInvalidJsonExtract == "Backend returned invalid JSON. Check console for details."
ErrInvalidJson == "Backend returned invalid JSON"
ErrEmptyResponse == "Backend returned empty response"
ErrInvoiceNotFound == "Invoice not found"

\* (mutant) the status text is thrown whatever the body holds
NonOkErrorStatusText(http, fallbackError, generic) ==
    Throw(Or(Str(http.statusText), Str(generic)).s)

\* await response.json().catch(() => ({error, message: response.statusText}))
\* and then throw new Error(error.message || generic)
NonOkError(http, fallbackError, generic) ==
    LET error == IF http.body.json THEN http.body.value
                 ELSE [t |-> "object", error |-> Str(fallbackError),
                       message |-> Str(http.statusText)]
    IN  IF ReadThrows(error) THEN Throw(TypeError)
        ELSE Throw(Or(Get(error, "message"), Str(generic)).s)

\* the try block of ApiClient.extractInvoice
ExtractInvoiceTry(http) ==
    IF http.kind = "rejected" THEN Throw(http.message)
    ELSE IF ~ResponseOk(http) THEN NonOkError(http, "Upload failed", "Failed to extract invoice")
    ELSE IF ~http.body.json THEN Throw(ErrInvalidJsonExtract)
    ELSE extractInvoice(http.body.value)

\* the catch block of ApiClient.extractInvoice
ExtractInvoiceCatch(thrown) ==
    IF IsTypeError(thrown.err) /\ IncludesFailedToFetch(thrown.err)
    THEN Throw(ErrCannotConnect)
    ELSE thrown

ApiClientExtractInvoice(http) ==
    IF ExtractInvoiceTry(http).ok THEN ExtractInvoiceTry(http)
    ELSE ExtractInvoiceCatch(ExtractInvoiceTry(http))

\* (mutant) a 404 is treated like every other status
ApiClientGetInvoiceByIdNo404(http) ==
    IF http.kind = "rejected" THEN Throw(http.message)
    ELSE IF ~ResponseOk(http)
    THEN NonOkError(http, "Fetch failed", "Failed to fetch invoice")
    ELSE IF ~http.body.json
    THEN (IF Trim(http.body.text) = "" THEN Throw(ErrEmptyResponse) ELSE Throw(ErrInvalidJson))
    ELSE getInvoiceById(http.body.value)

\* ApiClient.getInvoiceById (its catch block throws the error on as it is)
ApiClientGetInvoiceById(http) ==
    IF http.kind = "rejected" THEN Throw(http.message)
    ELSE IF ~ResponseOk(http)
    THEN (IF http.status = 404 THEN Throw(ErrInvoiceNotFound)
          ELSE NonOkError(http, "Fetch failed", "Failed to fetch invoice"))
    ELSE IF ~http.body.json
    THEN (IF Trim(http.body.text) = "" THEN Throw(ErrEmptyResponse) ELSE Throw(ErrInvalidJson))
    ELSE getInvoiceById(http.body.value)

\* ApiClient.getInvoicesByVendor (its catch block throws the error on as it is)
ApiClientGetInvoicesByVendor(http) ==
    IF http.kind = "rejected" THEN Throw(http.message)
    ELSE IF ~ResponseOk(http) THEN NonOkError(http, "Fetch failed", "Failed to fetch invoices")
    ELSE IF ~http.body.json THEN Throw(ErrInvalidJson)
    ELSE getInvoicesByVendor(http.body.value)

----------------------------------------------------------------------------
(* Decoded backend bodies the operations are applied to *)

MaxItems == 3
MaxInvoices == 3

RECURSIVE SeqsUpTo(_, _)
\* all sequences over S of length at most n
SeqsUpTo(S, n) ==
    IF n = 0 THEN {<<>>}
    ELSE LET shorter == SeqsUpTo(S, n - 1)
         IN  shorter \cup {Append(s, x) : s \in {q \in shorter : Len(q) = n - 1}, x \in S}

\* a raw line item: { Description, Name, Quantity, UnitPrice, Amount }
RawItem(d, n, q, u, a) ==
    [t |-> "object", Description |-> d, Name |-> n, Quantity |-> q,
     UnitPrice |-> u, Amount |-> a]

ItemPool ==
    { RawItem(Str("Widget"), Undefined, Num(1), Num(5), Num(5)),
      RawItem(Undefined, Str("Widget"), Num(1), Num(5), Num(5)),
      RawItem(Str("Gadget"), Undefined, Num(1), Num(5), Num(5)),
      RawItem(Str("Widget"), Undefined, Num(2), Num(5), Num(5)),
      RawItem(Str("Widget"), Undefined, Num(1), Num(6), Num(5)),
      RawItem(Str("Widget"), Undefined, Num(1), Num(5), Num(6)),
      RawItem(Str("Widget"), Undefined, Num(1), Num(5), Num(0)),
      RawItem(Str("Widget"), Undefined, Num(1), Num(5), Null),
      RawItem(Str("Widget"), Undefined, Num(1), Num(5), Undefined),
      RawItem(Str("Widget"), Undefined, Num(1), Num(5), NaN),
      RawItem(Undefined, Undefined, Num(1), Num(5), Num(5)),
      RawItem(Str(""), Null, Num(1), Num(5), Num(5)),
      RawItem(Str("Widget"), Undefined, Undefined, Null, Num(5)) }

\* a raw invoice record: the keys read by both normalizers (a key holding
\* undefined is a key the body does not carry)
RawInvoice(id, vendor, date, total, items) ==
    [t |-> "object", InvoiceId |-> id, VendorName |-> vendor, InvoiceDate |-> date,
     InvoiceTotal |-> total, Items |-> items]

\* the values of Items: absent, null, or an array of at most maxItems items
ItemLists(maxItems) == {Undefined, Null} \cup {Arr(s) : s \in SeqsUpTo(ItemPool, maxItems)}
ShortItemLists == {Undefined} \cup {Arr(s) : s \in SeqsUpTo(ItemPool, 1)}
IdValues == {Undefined, Null, Str(""), Str("INV-1")}

\* bodies of the shape of one invoice, and the bodies that are no object at all
SmallInvoiceBodies ==
    {RawInvoice(id, Undefined, Undefined, Undefined, items) :
        id \in IdValues, items \in ShortItemLists}
    \cup {Null, Undefined, Str(""), Num(0), Num(7), Str("oops")}

InvoiceBodies(maxItems) ==
    {RawInvoice(Str("INV-1"), Str("Acme"), Str("2024-03-01"), Num(500), items) :
        items \in ItemLists(maxItems)}
    \cup SmallInvoiceBodies

\* bodies of POST /extract: { data: {...} }, and bodies without data
ExtractBodies(maxItems) ==
    {[t |-> "object", data |-> d] :
        d \in InvoiceBodies(maxItems) \ {Str(""), Num(0), Num(7), Str("oops")}}
    \cup {Null}

\* elements of a vendor list
InvoiceA ==
    RawInvoice(Str("INV-A"), Str("acme"), Str("2024-03-01"), Num(100),
               Arr(<<RawItem(Str("Widget"), Undefined, Num(1), Num(5), Num(5)),
                     RawItem(Str("Widget"), Undefined, Num(1), Num(5), Num(5))>>))
InvoiceB == RawInvoice(Str("INV-B"), Str("Beta"), Str("2024-01-15"), Num(200), Undefined)
InvoiceC == RawInvoice(Str("INV-C"), Undefined, Undefined, Undefined, Arr(<<>>))
NoIdInvoice == RawInvoice(Undefined, Str("acme"), Str("2024-03-01"), Num(100), Undefined)

VendorElements == {InvoiceA, InvoiceB, InvoiceC, NoIdInvoice, Null}

Envelope(vendor, inner) ==
    [t |-> "object", VendorName |-> vendor, TotalInvoices |-> Undefined,
     invoices |-> inner]

VendorBodies(maxInvoices) ==
    {Envelope(v, inner) :
        v \in {Undefined, Str(""), Str("acme")},
        inner \in {Undefined, Null}
                   \cup {Arr(l) : l \in SeqsUpTo(VendorElements, maxInvoices)}}
    \cup {Arr(l) : l \in SeqsUpTo(VendorElements, maxInvoices)}
    \cup {InvoiceA, InvoiceB, InvoiceC, NoIdInvoice}
    \cup {Null, Num(7), Num(0), Str("oops"), Str(""), Bool(TRUE), Bool(FALSE),
          [t |-> "object"]}

\* the calls made: an operation and the decoded body it is applied to
Calls(maxItems, maxInvoices) ==
    {[op |-> "normalizeInvoiceResponse", arg |-> b] : b \in InvoiceBodies(maxItems)}
    \cup {[op |-> "getInvoiceById", arg |-> b] : b \in SmallInvoiceBodies \ {Undefined}}
    \cup {[op |-> "extractInvoice", arg |-> b] : b \in ExtractBodies(maxItems)}
    \cup {[op |-> "getInvoicesByVendor", arg |-> b] : b \in VendorBodies(maxInvoices)}

----------------------------------------------------------------------------
(* Query engine of the invoices page: coercions used by the filters and sort *)

\* String.prototype.toLowerCase on the strings of the model
ToLowerCase(s) ==
    CASE s = "Pending" -> "pending"
      [] s = "Beta" -> "beta"
      [] s = "Unknown" -> "unknown"
      [] s = "SCAN.PDF" -> "scan.pdf"
      [] OTHER -> s

\* the strings the sort compares, in code-unit order (upper case sorts first)
StringOrder == <<"Beta", "Unknown", "acme", "beta", "unknown">>
StringRank(s) == CHOOSE i \in 1..Len(StringOrder) : StringOrder[i] = s

\* new Date(v).getTime(), counted in days since the epoch; NaN for an invalid date
DateValue(v) ==
    IF v.t # "string" THEN NaN
    ELSE CASE v.s = "2024-01-15" -> Num(19737)
           [] v.s = "2024-02-01" -> Num(19754)
           [] v.s = "2024-02-15" -> Num(19768)
           [] v.s = "2024-03-01" -> Num(19783)
           [] v.s = "2024-04-01" -> Num(19814)
           [] OTHER -> NaN

\* a < b on two numbers or on two strings (false when either is NaN)
JsLess(a, b) ==
    CASE a.t = "number" /\ b.t = "number" -> a.n < b.n
      [] a.t = "string" /\ b.t = "string" -> StringRank(a.s) < StringRank(b.s)
      [] OTHER -> FALSE

JsGreater(a, b) == JsLess(b, a)
JsLessEq(a, b) == JsLess(a, b) \/ (a.t # "nan" /\ a = b)
JsGreaterEq(a, b) == JsLessEq(b, a)

\* the value the comparator compares for one invoice
SortKey(inv, field) ==
    CASE field \in {"invoiceDate", "dueDate"} -> DateValue(inv[field])
      [] field = "totalAmount" -> inv[field]
      [] OTHER -> Str(ToLowerCase(inv[field].s))

\* the comparator handed to filtered.sort
Compare(a, b, field, order) ==
    LET aValue == SortKey(a, field)
        bValue == SortKey(b, field)
    IN  IF order = "asc"
        THEN (IF JsGreater(aValue, bValue) THEN 1 ELSE -1)
        ELSE (IF JsLess(aValue, bValue) THEN 1 ELSE -1)

----------------------------------------------------------------------------
(* Array.prototype.sort as V8 runs it on an array of fewer than 64 elements: *)
(* one run is counted (and reversed when descending), the rest is inserted   *)
(* by binary insertion. The comparator above never returns 0, so the order   *)
(* of equal keys is what this algorithm makes of it.                         *)

RECURSIVE RunLength(_, _, _, _, _)
RECURSIVE BinarySearch(_, _, _, _, _, _)
RECURSIVE InsertFrom(_, _, _, _)

Reverse(s) == [i \in 1..Len(s) |-> s[Len(s) + 1 - i]]

\* the loop of CountAndMakeRun leaves as soon as the run is broken
RunBroken(descending, o) == (descending /\ o >= 0) \/ (~descending /\ o < 0)

\* CountAndMakeRun: idx is the next element to look at (1-based)
RunLength(arr, idx, descending, field, order) ==
    IF idx > Len(arr) \/ RunBroken(descending, Compare(arr[idx], arr[idx - 1], field, order))
    THEN idx - 1
    ELSE RunLength(arr, idx + 1, descending, field, order)

\* the half of [left, right) the search goes on in, as <<left, right>>
Halve(left, right, mid, less) == IF less THEN <<left, mid>> ELSE <<mid + 1, right>>

\* the search narrowed to one half
SearchHalf(arr, pivot, half, field, order) ==
    BinarySearch(arr, pivot, half[1], half[2], field, order)

\* one step: pivot is compared with the middle element (0-based index mid)
SearchStep(arr, pivot, left, right, mid, field, order) ==
    SearchHalf(arr, pivot,
               Halve(left, right, mid, Compare(pivot, arr[mid + 1], field, order) < 0),
               field, order)

\* the insertion point of pivot in the sorted arr[left .. right-1] (0-based)
BinarySearch(arr, pivot, left, right, field, order) ==
    IF left >= right THEN left
    ELSE SearchStep(arr, pivot, left, right, left + ((right - left) \div 2), field, order)

\* arr with the element at 0-based index start moved to 0-based index left
MoveTo(arr, start, left) ==
    SubSeq(arr, 1, left) \o <<arr[start + 1]>> \o SubSeq(arr, left + 1, start)
    \o SubSeq(arr, start + 2, Len(arr))

\* BinaryInsertionSort: start is the 0-based index of the next element to insert
InsertFrom(arr, start, field, order) ==
    IF start >= Len(arr) THEN arr
    ELSE InsertFrom(MoveTo(arr, start,
                           BinarySearch(arr, arr[start + 1], 0, start, field, order)),
                    start + 1, field, order)

\* the run of CountAndMakeRun, reversed in place when it is descending
MakeRun(arr, descending, run) ==
    IF descending
    THEN Reverse(SubSeq(arr, 1, run)) \o SubSeq(arr, run + 1, Len(arr))
    ELSE arr

SortFromRun(arr, descending, run, field, order) ==
    InsertFrom(MakeRun(arr, descending, run), run, field, order)

SortWithFirstOrder(arr, descending, field, order) ==
    SortFromRun(arr, descending, RunLength(arr, 3, descending, field, order), field, order)

ArraySort(arr, field, order) ==
    IF Len(arr) < 2 THEN arr
    ELSE SortWithFirstOrder(arr, Compare(arr[2], arr[1], field, order) < 0, field, order)

----------------------------------------------------------------------------
(* processedInvoices / paginatedInvoices *)

\* An array the pipeline holds: elems, and ref telling whether it is the very
\* array of the invoices state ("state") or one the pipeline allocated.
StateArray(elems) == [ref |-> "state", elems |-> elems]

\* (mutant) let filtered = invoices: no copy is made
SpreadCopyAlias(a) == a

\* [...invoices]
SpreadCopy(a) == [ref |-> "copy", elems |-> a.elems]

\* (mutant) the status compared as it is written
KeepStatusCaseSensitive(inv, status) ==
    inv.status.t = "string" /\ inv.status.s = status

KeepStatus(inv, status) ==
    inv.status.t = "string" /\ ToLowerCase(inv.status.s) = ToLowerCase(status)

KeepFromStart(inv, start) ==
    JsGreaterEq(DateValue(inv.invoiceDate), DateValue(Str(start)))

\* (mutant) the end date taken as an exclusive bound
KeepBeforeEnd(inv, end) ==
    JsLess(DateValue(inv.invoiceDate), DateValue(Str(end)))

KeepUntilEnd(inv, end) ==
    JsLessEq(DateValue(inv.invoiceDate), DateValue(Str(end)))

\* filtered = filtered.filter(...): always a new array
StatusFiltered(a, status) ==
    IF status # "all"
    THEN [ref |-> "filtered",
          elems |-> FilterSeq(a.elems, [i \in 1..Len(a.elems) |-> KeepStatus(a.elems[i], status)])]
    ELSE a

StartFiltered(a, start) ==
    IF start # ""
    THEN [ref |-> "filtered",
          elems |-> FilterSeq(a.elems, [i \in 1..Len(a.elems) |-> KeepFromStart(a.elems[i], start)])]
    ELSE a

EndFiltered(a, end) ==
    IF end # ""
    THEN [ref |-> "filtered",
          elems |-> FilterSeq(a.elems, [i \in 1..Len(a.elems) |-> KeepUntilEnd(a.elems[i], end)])]
    ELSE a

\* filtered.sort(...) sorts the array it is called on, in place
SortInPlace(a, field, order) == [ref |-> a.ref, elems |-> ArraySort(a.elems, field, order)]

\* The useMemo body: the array returned, and the invoices state as the call
\* leaves it.
ProcessInvoices(list, status, start, end, field, order) ==
    LET copied == SpreadCopy(StateArray(list))
        filtered == EndFiltered(StartFiltered(StatusFiltered(copied, status), start), end)
        sorted == SortInPlace(filtered, field, order)
    IN  [processed |-> sorted.elems,
         invoices |-> IF sorted.ref = "state" THEN sorted.elems ELSE list]

\* Array.prototype.slice(start, end) with 0 <= start <= end
Slice(s, start, end) ==
    LET last == IF end < Len(s) THEN end ELSE Len(s)
    IN  IF start >= last THEN <<>> ELSE SubSeq(s, start + 1, last)

\* Math.ceil(n / d) for n >= 0, d > 0
Ceil(n, d) == (n + d - 1) \div d

TotalPages(processed, perPage) == Ceil(Len(processed), perPage)

\* (mutant) the page number taken as 0-based
PaginateFromZero(processed, page, perPage) ==
    Slice(processed, page * perPage, page * perPage + perPage)

PaginateInvoices(processed, page, perPage) ==
    LET startIndex == (page - 1) * perPage
        endIndex == startIndex + perPage
    IN  Slice(processed, startIndex, endIndex)

----------------------------------------------------------------------------
(* The normalizer applied to decoded bodies *)

PageInit ==
    /\ vendorName = ""
    /\ invoiceId = ""
    /\ invoices = <<>>
    /\ statusFilter = "all"
    /\ startDate = ""
    /\ endDate = ""
    /\ sortField = "invoiceDate"
    /\ sortOrder = "desc"
    /\ currentPage = 1
    /\ itemsPerPage = 10
    /\ isLoading = FALSE
    /\ hasSearched = FALSE
    /\ searchType = "vendor"
    /\ processedInvoices = <<>>
    /\ paginatedInvoices = <<>>

\* the upload page as constructed
UploadInit ==
    /\ file = Null
    /\ isDragging = FALSE
    /\ isUploading = FALSE
    /\ timers = {}
    /\ route = "/upload"

\* the details page as constructed, before its effect runs
DetailsInit ==
    /\ invoice = Null
    /\ detailsLoading = TRUE
    /\ isEditing = FALSE
    /\ editedInvoice = Null
    /\ mounted = FALSE

\* the key of the authentication flag
AuthKey == "isAuthenticated"

BlankForm == [username |-> "", password |-> "", error |-> FALSE]

\* logged in, with the content of a protected page on the screen
SignedInInit ==
    /\ storage = {AuthKey}
    /\ loginForm = BlankForm
    /\ screen = "page"

\* nothing notified and nothing sent
QuietInit ==
    /\ toast = <<>>
    /\ inFlight = <<>>

NormalizerInit ==
    /\ call \in Calls(MaxItems, MaxInvoices)
    /\ result = NotReturned
    /\ PageInit
    /\ UploadInit
    /\ DetailsInit
    /\ QuietInit
    /\ SignedInInit

CallNormalizeInvoiceResponse ==
    /\ call.op = "normalizeInvoiceResponse"
    /\ result = NotReturned
    /\ result' = normalizeInvoiceResponse(call.arg)
    /\ UNCHANGED <<call, uiVars>>

CallGetInvoiceById ==
    /\ call.op = "getInvoiceById"
    /\ result = NotReturned
    /\ result' = getInvoiceById(call.arg)
    /\ UNCHANGED <<call, uiVars>>

CallExtractInvoice ==
    /\ call.op = "extractInvoice"
    /\ result = NotReturned
    /\ result' = extractInvoice(call.arg)
    /\ UNCHANGED <<call, uiVars>>

CallGetInvoicesByVendor ==
    /\ call.op = "getInvoicesByVendor"
    /\ result = NotReturned
    /\ result' = getInvoicesByVendor(call.arg)
    /\ UNCHANGED <<call, uiVars>>

NormalizerNext ==
    \/ CallNormalizeInvoiceResponse
    \/ CallGetInvoiceById
    \/ CallExtractInvoice
    \/ CallGetInvoicesByVendor

SpecNormalizer == NormalizerInit /\ [][NormalizerNext]_vars

----------------------------------------------------------------------------
(* The invoices page *)

BigListLength == 12

\* the vendor list of BigListLength invoices, all of one vendor
BigList ==
    [i \in 1..BigListLength |->
        RawInvoice(Str("INV-" \o ToString(i)), Str("acme"), Str("2024-03-01"),
                   Num(100 + i), Undefined)]

\* bodies GET /invoices/vendor/{name} answers the page with
PageVendorBodies ==
    { Envelope(Str("acme"), Arr(<<InvoiceA, InvoiceB>>)),
      Envelope(Str("acme"), Arr(<<InvoiceB, InvoiceC, InvoiceA>>)),
      Envelope(Str("acme"), Arr(<<>>)),
      Arr(BigList),
      Arr(<<InvoiceA, NoIdInvoice>>),
      Envelope(Str("acme"), Undefined),
      Null }

\* bodies GET /invoice/{id} answers the page with
PageInvoiceBodies == {InvoiceA, NoIdInvoice, Null}

StatusChoices == {"all", "paid", "pending", "overdue"}
StartDateChoices == {"", "2024-02-01"}
EndDateChoices == {"", "2024-02-15", "2024-04-01"}
PageSizeChoices == {5, 10, 20, 50}
SortFields == {"invoiceDate", "dueDate", "totalAmount", "vendorName"}

\* reason phrases of the statuses of the model
ReasonPhrase(status) ==
    CASE status = 200 -> "OK"
      [] status = 404 -> "Not Found"
      [] OTHER -> "Internal Server Error"

\* { error, message } as the backend sends it with a non-success status
ErrorBody(error, message) == [t |-> "object", error |-> error, message |-> message]

\* the ways a request of the invoices page fails before a body is decoded
PageFailures ==
    { Rejected("Failed to fetch"),
      Response(500, ReasonPhrase(500), NotJson("<html>")),
      Response(404, ReasonPhrase(404),
               Json(ErrorBody(Str("Not Found"), Str("No such vendor or invoice")))),
      Response(200, ReasonPhrase(200), NotJson("<html>")) }

\* what fetch settles with for GET /invoices/vendor/{name}
PageVendorExchanges ==
    PageFailures \cup {Response(200, ReasonPhrase(200), Json(b)) : b \in PageVendorBodies}

\* what fetch settles with for GET /invoice/{id}
PageInvoiceExchanges ==
    PageFailures \cup {Response(200, ReasonPhrase(200), Json(b)) : b \in PageInvoiceBodies}

\* what the user types into the two search fields
VendorNameChoices == {"", "  ", "acme"}
InvoiceIdChoices == {"", "  ", "INV-A"}

\* One render with the given state: the memo is recomputed and the page sliced.
Render(list, status, start, end, field, order, page, perPage) ==
    LET p == ProcessInvoices(list, status, start, end, field, order)
    IN  /\ statusFilter' = status
        /\ startDate' = start
        /\ endDate' = end
        /\ sortField' = field
        /\ sortOrder' = order
        /\ currentPage' = page
        /\ itemsPerPage' = perPage
        /\ invoices' = p.invoices
        /\ processedInvoices' = p.processed
        /\ paginatedInvoices' = PaginateInvoices(p.processed, page, perPage)

Toast(kind, message) == [kind |-> kind, message |-> message]

\* a request on the network: the handler that sent it and the argument it sent
Request(from, arg) == [from |-> from, arg |-> arg]

\* handler from has a request on the network
Sent(from) == \E i \in 1..Len(inFlight) : inFlight[i].from = from

\* the requests on the network once the oldest one of handler from has settled
Settled(from) ==
    LET i == CHOOSE j \in 1..Len(inFlight) :
                 /\ inFlight[j].from = from
                 /\ \A k \in 1..(j - 1) : inFlight[k].from # from
    IN  SubSeq(inFlight, 1, i - 1) \o SubSeq(inFlight, i + 1, Len(inFlight))

\* onChange of the vendor field (disabled while a search is loading)
SetVendorName(value) ==
    /\ ~isLoading
    /\ vendorName' = value
    /\ toast' = <<>>
    /\ UNCHANGED <<invoiceId, invoices, statusFilter, startDate, endDate, sortField,
                   sortOrder, currentPage, itemsPerPage, isLoading, hasSearched,
                   searchType, processedInvoices, paginatedInvoices, inFlight, outsidePage>>

\* onChange of the invoice-ID field (disabled while a search is loading)
SetInvoiceId(value) ==
    /\ ~isLoading
    /\ invoiceId' = value
    /\ toast' = <<>>
    /\ UNCHANGED <<vendorName, invoices, statusFilter, startDate, endDate, sortField,
                   sortOrder, currentPage, itemsPerPage, isLoading, hasSearched,
                   searchType, processedInvoices, paginatedInvoices, inFlight, outsidePage>>

\* (mutant) the field is tested without trim()
handleSearchByVendorNoTrim ==
    /\ ~isLoading
    /\ IF vendorName = ""
       THEN /\ toast' = <<Toast("error", "Please enter a vendor name")>>
            /\ UNCHANGED <<pageVars, inFlight>>
       ELSE /\ isLoading' = TRUE
            /\ hasSearched' = TRUE
            /\ searchType' = "vendor"
            /\ Render(invoices, statusFilter, startDate, endDate, sortField, sortOrder,
                      1, itemsPerPage)
            /\ inFlight' = Append(inFlight, Request("handleSearchByVendor", vendorName))
            /\ toast' = <<>>
            /\ UNCHANGED searchFields
    /\ UNCHANGED outsidePage

\* the vendor form is submitted (its button is disabled while loading): an
\* empty field is refused, otherwise the request is sent and awaited
handleSearchByVendor ==
    /\ ~isLoading
    /\ IF Trim(vendorName) = ""
       THEN /\ toast' = <<Toast("error", "Please enter a vendor name")>>
            /\ UNCHANGED <<pageVars, inFlight>>
       ELSE /\ isLoading' = TRUE
            /\ hasSearched' = TRUE
            /\ searchType' = "vendor"
            /\ Render(invoices, statusFilter, startDate, endDate, sortField, sortOrder,
                      1, itemsPerPage)
            /\ inFlight' = Append(inFlight, Request("handleSearchByVendor", vendorName))
            /\ toast' = <<>>
            /\ UNCHANGED searchFields
    /\ UNCHANGED outsidePage

\* the notification of a vendor search that settled
VendorSearchToast(results) ==
    IF ~results.ok THEN Toast("error", results.err)
    ELSE IF Len(results.val.elems) = 0
    THEN Toast("info", "No invoices found for this vendor")
    ELSE Toast("success", "Found " \o ToString(Len(results.val.elems)) \o " invoice(s)")

\* (mutant) the catch block leaves the list of the earlier search in place
VendorSearchSettlesKeepList(http) ==
    /\ Sent("handleSearchByVendor")
    /\ Render(IF ApiClientGetInvoicesByVendor(http).ok
              THEN ApiClientGetInvoicesByVendor(http).val.elems
              ELSE invoices,
              statusFilter, startDate, endDate, sortField, sortOrder,
              currentPage, itemsPerPage)
    /\ toast' = <<VendorSearchToast(ApiClientGetInvoicesByVendor(http))>>
    /\ isLoading' = FALSE
    /\ inFlight' = Settled("handleSearchByVendor")
    /\ UNCHANGED <<hasSearched, searchType, searchFields, outsidePage>>

\* the fetch of ApiClient.getInvoicesByVendor settles with http: the rest of
\* try, or catch, and finally
VendorSearchSettles(http) ==
    /\ Sent("handleSearchByVendor")
    /\ Render(IF ApiClientGetInvoicesByVendor(http).ok
              THEN ApiClientGetInvoicesByVendor(http).val.elems
              ELSE <<>>,
              statusFilter, startDate, endDate, sortField, sortOrder,
              currentPage, itemsPerPage)
    /\ toast' = <<VendorSearchToast(ApiClientGetInvoicesByVendor(http))>>
    /\ isLoading' = FALSE
    /\ inFlight' = Settled("handleSearchByVendor")
    /\ UNCHANGED <<hasSearched, searchType, searchFields, outsidePage>>

\* the invoice-ID form is submitted
handleSearchById ==
    /\ ~isLoading
    /\ IF Trim(invoiceId) = ""
       THEN /\ toast' = <<Toast("error", "Please enter an invoice ID")>>
            /\ UNCHANGED <<pageVars, inFlight>>
       ELSE /\ isLoading' = TRUE
            /\ hasSearched' = TRUE
            /\ searchType' = "id"
            /\ Render(invoices, statusFilter, startDate, endDate, sortField, sortOrder,
                      1, itemsPerPage)
            /\ inFlight' = Append(inFlight, Request("handleSearchById", invoiceId))
            /\ toast' = <<>>
            /\ UNCHANGED searchFields
    /\ UNCHANGED outsidePage

\* the fetch of ApiClient.getInvoiceById settles with http
IdSearchSettles(http) ==
    /\ Sent("handleSearchById")
    /\ Render(IF ApiClientGetInvoiceById(http).ok
              THEN <<ApiClientGetInvoiceById(http).val>>
              ELSE <<>>,
              statusFilter, startDate, endDate, sortField, sortOrder,
              currentPage, itemsPerPage)
    /\ toast' = IF ApiClientGetInvoiceById(http).ok
                THEN <<Toast("success", "Invoice found")>>
                ELSE <<Toast("error", ApiClientGetInvoiceById(http).err)>>
    /\ isLoading' = FALSE
    /\ inFlight' = Settled("handleSearchById")
    /\ UNCHANGED <<hasSearched, searchType, searchFields, outsidePage>>

\* the filter controls are rendered when invoices.length > 0
ControlsShown == hasSearched /\ Len(invoices) > 0
\* the table with its sortable headers is rendered when the page is not empty
TableShown == hasSearched /\ Len(paginatedInvoices) > 0
\* the pager is rendered when there is more than one page
PagerShown ==
    /\ hasSearched
    /\ Len(processedInvoices) > 0
    /\ TotalPages(processedInvoices, itemsPerPage) > 1

SetStatusFilter ==
    /\ ControlsShown
    /\ \E value \in StatusChoices :
          Render(invoices, value, startDate, endDate, sortField, sortOrder, 1, itemsPerPage)
    /\ toast' = <<>>
    /\ UNCHANGED <<isLoading, hasSearched, searchType, searchFields, inFlight, outsidePage>>

SetStartDate ==
    /\ ControlsShown
    /\ \E value \in StartDateChoices :
          Render(invoices, statusFilter, value, endDate, sortField, sortOrder, 1, itemsPerPage)
    /\ toast' = <<>>
    /\ UNCHANGED <<isLoading, hasSearched, searchType, searchFields, inFlight, outsidePage>>

SetEndDate ==
    /\ ControlsShown
    /\ \E value \in EndDateChoices :
          Render(invoices, statusFilter, startDate, value, sortField, sortOrder, 1, itemsPerPage)
    /\ toast' = <<>>
    /\ UNCHANGED <<isLoading, hasSearched, searchType, searchFields, inFlight, outsidePage>>

\* (mutant) the page size is changed and the page number kept
SetItemsPerPageKeepPage ==
    /\ ControlsShown
    /\ \E value \in PageSizeChoices :
          Render(invoices, statusFilter, startDate, endDate, sortField, sortOrder,
                 currentPage, value)
    /\ toast' = <<>>
    /\ UNCHANGED <<isLoading, hasSearched, searchType, searchFields, inFlight, outsidePage>>

SetItemsPerPage ==
    /\ ControlsShown
    /\ \E value \in PageSizeChoices :
          Render(invoices, statusFilter, startDate, endDate, sortField, sortOrder, 1, value)
    /\ toast' = <<>>
    /\ UNCHANGED <<isLoading, hasSearched, searchType, searchFields, inFlight, outsidePage>>

ClearFilters ==
    /\ ControlsShown
    /\ statusFilter # "all" \/ startDate # "" \/ endDate # ""
    /\ Render(invoices, "all", "", "", sortField, sortOrder, 1, itemsPerPage)
    /\ toast' = <<>>
    /\ UNCHANGED <<isLoading, hasSearched, searchType, searchFields, inFlight, outsidePage>>

\* (mutant) another field is made active with the direction left as it is
handleSortChangeKeepOrder(field) ==
    /\ TableShown
    /\ IF sortField = field
       THEN Render(invoices, statusFilter, startDate, endDate, sortField,
                   IF sortOrder = "asc" THEN "desc" ELSE "asc",
                   currentPage, itemsPerPage)
       ELSE Render(invoices, statusFilter, startDate, endDate, field, sortOrder,
                   currentPage, itemsPerPage)
    /\ toast' = <<>>
    /\ UNCHANGED <<isLoading, hasSearched, searchType, searchFields, inFlight, outsidePage>>

\* a click on the header of the column field
handleSortChange(field) ==
    /\ TableShown
    /\ IF sortField = field
       THEN Render(invoices, statusFilter, startDate, endDate, sortField,
                   IF sortOrder = "asc" THEN "desc" ELSE "asc",
                   currentPage, itemsPerPage)
       ELSE Render(invoices, statusFilter, startDate, endDate, field, "asc",
                   currentPage, itemsPerPage)
    /\ toast' = <<>>
    /\ UNCHANGED <<isLoading, hasSearched, searchType, searchFields, inFlight, outsidePage>>

Max(a, b) == IF a > b THEN a ELSE b
Min(a, b) == IF a < b THEN a ELSE b

PreviousPage ==
    /\ PagerShown
    /\ currentPage # 1
    /\ Render(invoices, statusFilter, startDate, endDate, sortField, sortOrder,
              Max(1, currentPage - 1), itemsPerPage)
    /\ toast' = <<>>
    /\ UNCHANGED <<isLoading, hasSearched, searchType, searchFields, inFlight, outsidePage>>

NextPage ==
    /\ PagerShown
    /\ currentPage # TotalPages(processedInvoices, itemsPerPage)
    /\ Render(invoices, statusFilter, startDate, endDate, sortField, sortOrder,
              Min(TotalPages(processedInvoices, itemsPerPage), currentPage + 1),
              itemsPerPage)
    /\ toast' = <<>>
    /\ UNCHANGED <<isLoading, hasSearched, searchType, searchFields, inFlight, outsidePage>>

\* the number shown on the i-th page button (i counted from 0)
PageButton(i, page, totalPages) ==
    IF totalPages <= 5 THEN i + 1
    ELSE IF page <= 3 THEN i + 1
    ELSE IF page >= totalPages - 2 THEN totalPages - 4 + i
    ELSE page - 2 + i

GoToPage ==
    /\ PagerShown
    /\ \E i \in 0..(Min(5, TotalPages(processedInvoices, itemsPerPage)) - 1) :
          Render(invoices, statusFilter, startDate, endDate, sortField, sortOrder,
                 PageButton(i, currentPage, TotalPages(processedInvoices, itemsPerPage)),
                 itemsPerPage)
    /\ toast' = <<>>
    /\ UNCHANGED <<isLoading, hasSearched, searchType, searchFields, inFlight, outsidePage>>

Init ==
    /\ call = [op |-> "none", arg |-> Undefined]
    /\ result = NotReturned
    /\ PageInit
    /\ UploadInit
    /\ DetailsInit
    /\ QuietInit
    /\ SignedInInit

Next ==
    \/ SetVendorName("acme")
    \/ SetInvoiceId("INV-A")
    \/ handleSearchByVendor
    \/ \E http \in PageVendorExchanges : VendorSearchSettles(http)
    \/ handleSearchById
    \/ \E http \in PageInvoiceExchanges : IdSearchSettles(http)
    \/ SetStatusFilter
    \/ SetStartDate
    \/ SetEndDate
    \/ SetItemsPerPage
    \/ ClearFilters
    \/ \E field \in SortFields : handleSortChange(field)
    \/ PreviousPage
    \/ NextPage
    \/ GoToPage

Spec == Init /\ [][Next]_vars

----------------------------------------------------------------------------
(* The query engine of the invoices page applied once to chosen inputs: the *)
(* fetched list, the filters, the sort and the page are given, one render    *)
(* computes processedInvoices and paginatedInvoices.                         *)

MaxEngineList == 3
MaxPage == 4

\* two more records of a vendor list: INV-D ties with INV-A on the amount and
\* with INV-B on the lowercased vendor name
InvoiceD == RawInvoice(Str("INV-D"), Str("beta"), Str("2024-02-01"), Num(100), Undefined)
InvoiceE == RawInvoice(Str("INV-E"), Str("acme"), Str("2024-04-01"), Num(300), Undefined)

\* the canonical invoices the fetched list is made of
EnginePool ==
    {normalizeInvoiceResponse(raw).val :
        raw \in {InvoiceA, InvoiceB, InvoiceC, InvoiceD, InvoiceE}}

RECURSIVE ArrangementsUpTo(_, _)
\* every ordering of every subset of S of at most n elements
ArrangementsUpTo(S, n) ==
    IF n = 0 THEN {<<>>}
    ELSE {<<>>} \cup UNION {{<<x>> \o rest : rest \in ArrangementsUpTo(S \ {x}, n - 1)} : x \in S}

\* the first n invoices of the big vendor list, as fetched
BigListPrefix(n) == [i \in 1..n |-> normalizeInvoiceResponse(BigList[i]).val]

\* a short list under every filter and sort, on the first page of 10
EngineFilterInputs ==
    /\ invoices \in ArrangementsUpTo(EnginePool, MaxEngineList)
    /\ statusFilter \in StatusChoices
    /\ startDate \in StartDateChoices
    /\ endDate \in EndDateChoices
    /\ sortField \in SortFields
    /\ sortOrder \in {"asc", "desc"}
    /\ currentPage = 1
    /\ itemsPerPage = 10

\* a long list without filters on every page of every size, also the pages
\* past the last one
EnginePageInputs ==
    /\ invoices \in {BigListPrefix(n) : n \in 0..BigListLength}
    /\ statusFilter = "all"
    /\ startDate = ""
    /\ endDate = ""
    /\ sortField = "totalAmount"
    /\ sortOrder \in {"asc", "desc"}
    /\ currentPage \in 1..MaxPage
    /\ itemsPerPage \in PageSizeChoices

EngineInit ==
    /\ call = [op |-> "render", arg |-> Undefined]
    /\ result = NotReturned
    /\ EngineFilterInputs \/ EnginePageInputs
    /\ vendorName = "acme"
    /\ invoiceId = ""
    /\ UploadInit
    /\ DetailsInit
    /\ QuietInit
    /\ SignedInInit
    /\ isLoading = FALSE
    /\ hasSearched = TRUE
    /\ searchType = "vendor"
    /\ processedInvoices = <<>>
    /\ paginatedInvoices = <<>>

\* one render of the page: the useMemo body runs and the page is sliced
RenderPage ==
    /\ call.op = "render"
    /\ result = NotReturned
    /\ Render(invoices, statusFilter, startDate, endDate, sortField, sortOrder,
              currentPage, itemsPerPage)
    /\ result' = Ok(Undefined)
    /\ UNCHANGED <<call, isLoading, hasSearched, searchType, searchFields,
                   uploadVars, detailsVars, authVars, toast, inFlight>>

EngineNext == RenderPage

SpecEngine == EngineInit /\ [][EngineNext]_vars

----------------------------------------------------------------------------
(* The pager of the invoices page on a given page and number of pages: the   *)
(* page-number buttons it renders and where Previous and Next lead.          *)

MaxTotalPages == 9

\* (mutant) the window always starts two pages before the current one
PageButtonsCentred(page, totalPages) ==
    [k \in 1..Min(5, totalPages) |-> page - 2 + (k - 1)]

\* Array.from({ length: Math.min(5, totalPages) }, (_, i) => pageNumber)
PageButtons(page, totalPages) ==
    [k \in 1..Min(5, totalPages) |-> PageButton(k - 1, page, totalPages)]

\* setCurrentPage((prev) => Math.max(1, prev - 1))
PreviousTarget(page) == Max(1, page - 1)

\* setCurrentPage((prev) => Math.min(totalPages, prev + 1))
NextTarget(page, totalPages) == Min(totalPages, page + 1)

\* the pager is rendered (totalPages > 1) on a page the state can hold: any
\* page of the list, or one past it
PagerInit ==
    /\ call \in {[op |-> "pager", arg |-> [page |-> p, totalPages |-> n]] :
                    n \in 2..MaxTotalPages, p \in 1..(MaxTotalPages + 1)}
    /\ result = NotReturned
    /\ PageInit
    /\ UploadInit
    /\ DetailsInit
    /\ QuietInit
    /\ SignedInInit

RenderPager ==
    /\ call.op = "pager"
    /\ result = NotReturned
    /\ result' = Ok([t |-> "buttons",
                     numbers |-> PageButtons(call.arg.page, call.arg.totalPages)])
    /\ UNCHANGED <<call, uiVars>>

ClickPrevious ==
    /\ call.op = "pager"
    /\ result = NotReturned
    /\ call.arg.page # 1
    /\ result' = Ok([t |-> "previous", n |-> PreviousTarget(call.arg.page)])
    /\ UNCHANGED <<call, uiVars>>

ClickNext ==
    /\ call.op = "pager"
    /\ result = NotReturned
    /\ call.arg.page # call.arg.totalPages
    /\ result' = Ok([t |-> "next", n |-> NextTarget(call.arg.page, call.arg.totalPages)])
    /\ UNCHANGED <<call, uiVars>>

PagerNext ==
    \/ RenderPager
    \/ ClickPrevious
    \/ ClickNext

SpecPager == PagerInit /\ [][PagerNext]_vars

----------------------------------------------------------------------------
(* The three operations of ApiClient applied to a settled fetch *)

\* bodies sent with a non-success status
ErrorBodies ==
    { NotJson("<html>"),
      NotJson(""),
      Json(ErrorBody(Str("Not Found"), Str("No such vendor or invoice"))),
      Json(ErrorBody(Str("Bad Request"), Undefined)),
      Json(ErrorBody(Undefined, Str(""))),
      Json(Str("oops")),
      Json(Null) }

\* a fetch that did not reach the backend, or was answered with 404 or 500
FailedExchanges ==
    {Rejected(m) : m \in FetchFailureMessages}
    \cup UNION {{Response(status, text, b) : text \in {"", ReasonPhrase(status)},
                                             b \in ErrorBodies} : status \in {404, 500}}

\* bodies of a 200 that JSON.parse rejects
UndecodableBodies == {NotJson("<html>"), NotJson(""), NotJson("  ")}

\* every way the fetch settles when the backend answers 200 with one of bodies
Exchanges(bodies) ==
    FailedExchanges
    \cup {Response(200, ReasonPhrase(200), b) :
            b \in UndecodableBodies \cup {Json(v) : v \in bodies}}

\* decoded bodies of POST /extract
ApiExtractBodies ==
    { [t |-> "object", data |-> InvoiceA],
      [t |-> "object", data |-> NoIdInvoice],
      [t |-> "object"],
      Null }

ApiCalls ==
    {[op |-> "ApiClient.extractInvoice", arg |-> h] : h \in Exchanges(ApiExtractBodies)}
    \cup {[op |-> "ApiClient.getInvoiceById", arg |-> h] :
            h \in Exchanges(PageInvoiceBodies \cup {InvoiceB, Str("")})}
    \cup {[op |-> "ApiClient.getInvoicesByVendor", arg |-> h] :
            h \in Exchanges(PageVendorBodies)}

ApiInit ==
    /\ call \in ApiCalls
    /\ result = NotReturned
    /\ PageInit
    /\ UploadInit
    /\ DetailsInit
    /\ QuietInit
    /\ SignedInInit

CallApiClientExtractInvoice ==
    /\ call.op = "ApiClient.extractInvoice"
    /\ result = NotReturned
    /\ result' = ApiClientExtractInvoice(call.arg)
    /\ UNCHANGED <<call, uiVars>>

CallApiClientGetInvoiceById ==
    /\ call.op = "ApiClient.getInvoiceById"
    /\ result = NotReturned
    /\ result' = ApiClientGetInvoiceById(call.arg)
    /\ UNCHANGED <<call, uiVars>>

CallApiClientGetInvoicesByVendor ==
    /\ call.op = "ApiClient.getInvoicesByVendor"
    /\ result = NotReturned
    /\ result' = ApiClientGetInvoicesByVendor(call.arg)
    /\ UNCHANGED <<call, uiVars>>

ApiNext ==
    \/ CallApiClientExtractInvoice
    \/ CallApiClientGetInvoiceById
    \/ CallApiClientGetInvoicesByVendor

SpecApi == ApiInit /\ [][ApiNext]_vars

----------------------------------------------------------------------------
(* The upload page and the details page, and the four handlers that fetch *)

outsideUpload == <<normVars, pageVars, detailsVars, authVars>>
outsideDetails == <<normVars, pageVars, uploadVars, authVars>>

File(name, type, size) == [t |-> "file", name |-> name, type |-> type, size |-> size]

\* 10 * 1024 * 1024
MaxFileSize == 10 * 1024 * 1024

PdfFile == File("invoice.pdf", "application/pdf", 2048)
UntypedPdf == File("SCAN.PDF", "", 2048)
PngFile == File("scan.png", "image/png", 2048)
TxtFile == File("notes.txt", "text/plain", 2048)
LimitPdf == File("limit.pdf", "application/pdf", MaxFileSize)
HugePdf == File("huge.pdf", "application/pdf", MaxFileSize + 1)
HugePng == File("huge.png", "image/png", MaxFileSize + 1)

FileChoices == {PdfFile, UntypedPdf, PngFile, TxtFile, LimitPdf, HugePdf, HugePng}

allowedTypes == {"application/pdf", "image/jpeg", "image/jpg", "image/png", "image/gif"}

\* String.prototype.endsWith
EndsWith(s, suffix) ==
    /\ Len(s) >= Len(suffix)
    /\ SubSeq(s, Len(s) - Len(suffix) + 1, Len(s)) = suffix

isPDF(f) == f.type = "application/pdf" \/ EndsWith(ToLowerCase(f.name), ".pdf")
isImage(f) == f.type \in allowedTypes

\* (mutant) the size of the file is not looked at
validateFileAnySize(f) ==
    IF ~isPDF(f) /\ ~isImage(f)
    THEN [valid |-> FALSE,
          toasts |-> <<Toast("error",
              "Invalid file type. Please upload PDF files only (backend restriction).")>>]
    ELSE IF ~isPDF(f)
    THEN [valid |-> TRUE,
          toasts |-> <<Toast("warning",
              "Note: Backend only accepts PDF files. Image upload may fail.")>>]
    ELSE [valid |-> TRUE, toasts |-> <<>>]

\* validateFile: its verdict and the notifications it raises
validateFile(f) ==
    IF ~isPDF(f) /\ ~isImage(f)
    THEN [valid |-> FALSE,
          toasts |-> <<Toast("error",
              "Invalid file type. Please upload PDF files only (backend restriction).")>>]
    ELSE IF f.size > MaxFileSize
    THEN [valid |-> FALSE, toasts |-> <<Toast("error", "File size exceeds 10MB limit.")>>]
    ELSE IF ~isPDF(f)
    THEN [valid |-> TRUE,
          toasts |-> <<Toast("warning",
              "Note: Backend only accepts PDF files. Image upload may fail.")>>]
    ELSE [valid |-> TRUE, toasts |-> <<>>]

\* a file is dragged over the drop zone
handleDragOver ==
    /\ route = "/upload"
    /\ isDragging' = TRUE
    /\ toast' = <<>>
    /\ UNCHANGED <<file, isUploading, timers, route, inFlight, outsideUpload>>

\* the dragged file leaves the drop zone
handleDragLeave ==
    /\ route = "/upload"
    /\ isDragging' = FALSE
    /\ toast' = <<>>
    /\ UNCHANGED <<file, isUploading, timers, route, inFlight, outsideUpload>>

\* something is dropped on the drop zone: a file, or a drag that carries none
handleDrop(droppedFile) ==
    /\ route = "/upload"
    /\ isDragging' = FALSE
    /\ IF droppedFile = Undefined
       THEN toast' = <<>> /\ UNCHANGED file
       ELSE /\ file' = IF validateFile(droppedFile).valid THEN droppedFile ELSE file
            /\ toast' = validateFile(droppedFile).toasts
    /\ UNCHANGED <<isUploading, timers, route, inFlight, outsideUpload>>

\* Remove and Clear (shown or enabled with a file, disabled while uploading)
handleReset ==
    /\ route = "/upload"
    /\ file # Null
    /\ ~isUploading
    /\ file' = Null
    /\ toast' = <<>>
    /\ UNCHANGED <<isDragging, isUploading, timers, route, inFlight, outsideUpload>>

\* a file is picked in the file dialog
handleFileSelect(selectedFile) ==
    /\ route = "/upload"
    /\ file' = IF validateFile(selectedFile).valid THEN selectedFile ELSE file
    /\ toast' = validateFile(selectedFile).toasts
    /\ UNCHANGED <<isDragging, isUploading, timers, route, inFlight, outsideUpload>>

\* the Upload button (disabled without a file and while uploading): the
\* request is sent and awaited
handleUpload ==
    /\ route = "/upload"
    /\ file # Null
    /\ ~isUploading
    /\ isUploading' = TRUE
    /\ inFlight' = Append(inFlight, Request("handleUpload", file))
    /\ toast' = <<>>
    /\ UNCHANGED <<file, isDragging, timers, route, outsideUpload>>

\* a value inside a template literal
Interpolate(v) ==
    CASE v.t = "string" -> v.s
      [] v.t = "null" -> "null"
      [] OTHER -> "undefined"

\* the fetch of ApiClient.extractInvoice settles with http: the rest of try
\* (with the navigation scheduled), or catch, and finally
UploadSettles(http) ==
    /\ Sent("handleUpload")
    /\ IF ApiClientExtractInvoice(http).ok
       THEN /\ toast' = <<Toast("success", "Invoice extracted successfully!")>>
            /\ timers' = timers \cup
                 {"/invoice/" \o Interpolate(ApiClientExtractInvoice(http).val.invoiceId)}
       ELSE /\ toast' = <<Toast("error", ApiClientExtractInvoice(http).err)>>
            /\ UNCHANGED timers
    /\ isUploading' = FALSE
    /\ inFlight' = Settled("handleUpload")
    /\ UNCHANGED <<file, isDragging, route, outsideUpload>>

\* 500 ms after a successful upload: router.push; the effect of the details
\* page is due again when params.id changes
NavigateToInvoice ==
    /\ \E path \in timers :
        /\ route' = path
        /\ timers' = timers \ {path}
        /\ mounted' = (mounted /\ path = route)
    /\ toast' = <<>>
    /\ UNCHANGED <<file, isDragging, isUploading, inFlight, normVars, pageVars,
                   invoice, detailsLoading, isEditing, editedInvoice, authVars>>

\* route is a page /invoice/[id]
IsInvoiceRoute(path) == Len(path) > 9 /\ SubSeq(path, 1, 9) = "/invoice/"

\* params.id
RouteInvoiceId(path) == SubSeq(path, 10, Len(path))

\* the effect of the details page on mount: fetchInvoice up to its await
fetchInvoice ==
    /\ IsInvoiceRoute(route)
    /\ ~mounted
    /\ mounted' = TRUE
    /\ detailsLoading' = TRUE
    /\ inFlight' = Append(inFlight, Request("fetchInvoice", Str(RouteInvoiceId(route))))
    /\ toast' = <<>>
    /\ UNCHANGED <<invoice, isEditing, editedInvoice, outsideDetails>>

\* the fetch of fetchInvoice settles with http
FetchInvoiceSettles(http) ==
    /\ Sent("fetchInvoice")
    /\ IF ApiClientGetInvoiceById(http).ok
       THEN /\ invoice' = ApiClientGetInvoiceById(http).val
            /\ editedInvoice' = ApiClientGetInvoiceById(http).val
            /\ toast' = <<>>
       ELSE /\ toast' = <<Toast("error", ApiClientGetInvoiceById(http).err)>>
            /\ UNCHANGED <<invoice, editedInvoice>>
    /\ detailsLoading' = FALSE
    /\ inFlight' = Settled("fetchInvoice")
    /\ UNCHANGED <<isEditing, mounted, outsideDetails>>

\* the details of the invoice are rendered: not loading, and both records set
DetailsShown ==
    /\ IsInvoiceRoute(route)
    /\ mounted
    /\ ~detailsLoading
    /\ invoice # Null
    /\ editedInvoice # Null

\* Edit Invoice (rendered outside edit mode)
handleEdit ==
    /\ DetailsShown
    /\ ~isEditing
    /\ isEditing' = TRUE
    /\ toast' = <<>>
    /\ UNCHANGED <<invoice, detailsLoading, editedInvoice, mounted, inFlight, outsideDetails>>

\* (mutant) Cancel leaves the draft as edited
handleCancelKeepDraft ==
    /\ DetailsShown
    /\ isEditing
    /\ isEditing' = FALSE
    /\ toast' = <<>>
    /\ UNCHANGED <<invoice, detailsLoading, editedInvoice, mounted, inFlight, outsideDetails>>

\* Cancel (rendered in edit mode)
handleCancel ==
    /\ DetailsShown
    /\ isEditing
    /\ editedInvoice' = invoice
    /\ isEditing' = FALSE
    /\ toast' = <<>>
    /\ UNCHANGED <<invoice, detailsLoading, mounted, inFlight, outsideDetails>>

\* Save Changes (rendered in edit mode)
handleSave ==
    /\ DetailsShown
    /\ isEditing
    /\ invoice' = editedInvoice
    /\ isEditing' = FALSE
    /\ toast' = <<Toast("success", "Changes saved (UI only - not submitted to backend)")>>
    /\ UNCHANGED <<detailsLoading, editedInvoice, mounted, inFlight, outsideDetails>>

\* the edits of the model: a vendor name typed, an amount typed, the amount
\* field emptied (parseFloat('') is NaN)
EditChoices ==
    { [field |-> "vendorName", value |-> Str("Globex")],
      [field |-> "totalAmount", value |-> Num(250)],
      [field |-> "totalAmount", value |-> NaN] }

\* (mutant) the edit is written to the displayed record as well
handleInputChangeBoth(field, value) ==
    /\ DetailsShown
    /\ isEditing
    /\ editedInvoice' = [editedInvoice EXCEPT ![field] = value]
    /\ invoice' = [invoice EXCEPT ![field] = value]
    /\ toast' = <<>>
    /\ UNCHANGED <<detailsLoading, isEditing, mounted, inFlight, outsideDetails>>

\* onChange of an input of the edit form
handleInputChange(field, value) ==
    /\ DetailsShown
    /\ isEditing
    /\ editedInvoice' = [editedInvoice EXCEPT ![field] = value]
    /\ toast' = <<>>
    /\ UNCHANGED <<invoice, detailsLoading, isEditing, mounted, inFlight, outsideDetails>>

\* Intl.NumberFormat('en-US', { style: 'currency', currency }).format(amount)
\* on the amounts of the model: whole numbers below 1000, in USD
formatCurrency(amount, currency) ==
    IF amount.t = "number" THEN "$" \o ToString(amount.n) \o ".00" ELSE "$NaN"

\* the Total Amount the details page displays outside edit mode
DisplayedTotal == formatCurrency(invoice.totalAmount, invoice.currency)

\* how a fetch fails whatever the operation: no connection, a non-success
\* status, a body that is not JSON
RequestFailures ==
    { Rejected("Failed to fetch"),
      Response(500, ReasonPhrase(500), NotJson("<html>")),
      Response(200, ReasonPhrase(200), NotJson("<html>")) }

Answered(bodies) == {Response(200, ReasonPhrase(200), Json(v)) : v \in bodies}

RequestVendorExchanges ==
    RequestFailures
    \cup Answered({ Envelope(Str("acme"), Arr(<<InvoiceA, InvoiceB>>)),
                    Envelope(Str("acme"), Arr(<<>>)),
                    Arr(<<InvoiceA, NoIdInvoice>>),
                    Null })

RequestInvoiceExchanges ==
    RequestFailures \cup Answered({InvoiceA, NoIdInvoice, Null})

RequestExtractExchanges ==
    RequestFailures \cup Answered(ApiExtractBodies)

\* the pages router.push is asked for after these answers
NavigationTargets == {"/invoice/INV-A", "/invoice/undefined"}

\* the browser opens one of the three pages
RequestsInit ==
    /\ call = [op |-> "none", arg |-> Undefined]
    /\ result = NotReturned
    /\ PageInit
    /\ file = Null
    /\ isDragging = FALSE
    /\ isUploading = FALSE
    /\ timers = {}
    /\ route \in {"/invoices", "/upload", "/invoice/INV-A"}
    /\ DetailsInit
    /\ QuietInit
    /\ SignedInInit

RequestsNext ==
    \/ route = "/invoices" /\ \E value \in VendorNameChoices : SetVendorName(value)
    \/ route = "/invoices" /\ \E value \in InvoiceIdChoices : SetInvoiceId(value)
    \/ route = "/invoices" /\ handleSearchByVendor
    \/ \E http \in RequestVendorExchanges : VendorSearchSettles(http)
    \/ route = "/invoices" /\ handleSearchById
    \/ \E http \in RequestInvoiceExchanges : IdSearchSettles(http)
    \/ \E selectedFile \in FileChoices : handleFileSelect(selectedFile)
    \/ handleDragOver
    \/ handleDragLeave
    \/ \E droppedFile \in FileChoices \cup {Undefined} : handleDrop(droppedFile)
    \/ handleReset
    \/ handleUpload
    \/ \E http \in RequestExtractExchanges : UploadSettles(http)
    \/ NavigateToInvoice
    \/ fetchInvoice
    \/ \E http \in RequestInvoiceExchanges : FetchInvoiceSettles(http)
    \/ handleEdit
    \/ \E edit \in EditChoices : handleInputChange(edit.field, edit.value)
    \/ handleCancel
    \/ handleSave

\* every fetch settles: the browser resolves or rejects its promise
RequestsFairness ==
    /\ WF_vars(\E http \in RequestVendorExchanges : VendorSearchSettles(http))
    /\ WF_vars(\E http \in RequestInvoiceExchanges : IdSearchSettles(http))
    /\ WF_vars(\E http \in RequestExtractExchanges : UploadSettles(http))
    /\ WF_vars(\E http \in RequestInvoiceExchanges : FetchInvoiceSettles(http))
    /\ \A path \in NavigationTargets : WF_vars(NavigateToInvoice /\ route' = path)

SpecRequests == RequestsInit /\ [][RequestsNext]_vars /\ RequestsFairness

-----------------------------------------------------------------------------
(* Authentication: the flag in localStorage, the login page, the guard of    *)
(* the protected pages and the menu of Navigation.                           *)

ProtectedPages == {"/dashboard", "/upload", "/invoices", "/invoice/INV-A"}
Routes == ProtectedPages \cup {"/", "/login"}

UsernameChoices == {"", "admin", "Admin", "guest"}
PasswordChoices == {"", "admin", "admin ", "secret"}

\* the one pair the login page accepts
ValidUsername == "admin"
ValidPassword == "admin"

\* useAuth().isAuthenticated
isAuthenticated == AuthKey \in storage

\* the root page redirects to the login page or to the dashboard
Landing(path, keys) ==
    IF path = "/" THEN (IF AuthKey \in keys THEN "/dashboard" ELSE "/login")
    ELSE path

\* what a route renders: ProtectedRoute renders its children only with the
\* flag set
ScreenOf(path, keys) ==
    IF path = "/login" THEN "login"
    ELSE IF AuthKey \in keys THEN "page"
    ELSE "blank"

\* a page is mounted anew: the state of the pages is that of construction
MountFresh ==
    /\ vendorName' = ""
    /\ invoiceId' = ""
    /\ invoices' = <<>>
    /\ statusFilter' = "all"
    /\ startDate' = ""
    /\ endDate' = ""
    /\ sortField' = "invoiceDate"
    /\ sortOrder' = "desc"
    /\ currentPage' = 1
    /\ itemsPerPage' = 10
    /\ isLoading' = FALSE
    /\ hasSearched' = FALSE
    /\ searchType' = "vendor"
    /\ processedInvoices' = <<>>
    /\ paginatedInvoices' = <<>>
    /\ invoice' = Null
    /\ detailsLoading' = TRUE
    /\ isEditing' = FALSE
    /\ editedInvoice' = Null
    /\ mounted' = FALSE
    /\ file' = Null
    /\ isDragging' = FALSE
    /\ isUploading' = FALSE
    /\ loginForm' = BlankForm
    /\ toast' = <<>>

\* the browser is opened, with or without the flag stored, on a route
AuthInit ==
    /\ call = [op |-> "none", arg |-> Undefined]
    /\ result = NotReturned
    /\ PageInit
    /\ DetailsInit
    /\ file = Null
    /\ isDragging = FALSE
    /\ isUploading = FALSE
    /\ timers = {}
    /\ toast = <<>>
    /\ inFlight = <<>>
    /\ storage \in {{}, {AuthKey}}
    /\ loginForm = BlankForm
    /\ \E path \in Routes :
          /\ route = Landing(path, storage)
          /\ screen = ScreenOf(Landing(path, storage), storage)

\* a URL is typed, or the browser is started again on it
OpenRoute(path) ==
    /\ route' = Landing(path, storage)
    /\ screen' = ScreenOf(Landing(path, storage), storage)
    /\ MountFresh
    /\ UNCHANGED <<normVars, timers, inFlight, storage>>

\* ProtectedRoute without the flag: router.push('/login')
ProtectedRouteRedirect ==
    /\ route \in ProtectedPages
    /\ screen = "blank"
    /\ ~isAuthenticated
    /\ route' = "/login"
    /\ screen' = "login"
    /\ MountFresh
    /\ UNCHANGED <<normVars, timers, inFlight, storage>>

\* onChange of the username field
SetUsername(value) ==
    /\ screen = "login"
    /\ loginForm' = [loginForm EXCEPT !.username = value]
    /\ toast' = <<>>
    /\ UNCHANGED <<normVars, pageVars, uploadVars, detailsVars, inFlight, storage, screen>>

\* onChange of the password field
SetPassword(value) ==
    /\ screen = "login"
    /\ loginForm' = [loginForm EXCEPT !.password = value]
    /\ toast' = <<>>
    /\ UNCHANGED <<normVars, pageVars, uploadVars, detailsVars, inFlight, storage, screen>>

\* login(username, password) of the context
login(username, password) == username = ValidUsername /\ password = ValidPassword

\* the login form is submitted
SubmitLogin ==
    /\ screen = "login"
    /\ IF login(loginForm.username, loginForm.password)
       THEN /\ storage' = storage \cup {AuthKey}
            /\ route' = "/dashboard"
            /\ screen' = "page"
            /\ MountFresh
            /\ UNCHANGED timers
       ELSE /\ loginForm' = [loginForm EXCEPT !.error = TRUE]
            /\ toast' = <<>>
            /\ UNCHANGED <<pageVars, uploadVars, detailsVars, storage, screen>>
    /\ UNCHANGED <<normVars, inFlight>>

\* logout() of the context: the flag is removed and the login page opened
logout ==
    /\ storage' = storage \ {AuthKey}
    /\ route' = "/login"
    /\ screen' = "login"
    /\ MountFresh
    /\ UNCHANGED <<normVars, timers, inFlight>>

\* (mutant) following a link of the bar forgets the flag
ClickNavItemForgetsFlag(href) ==
    /\ screen = "page"
    /\ route' = href
    /\ storage' = {}
    /\ screen' = ScreenOf(href, {})
    /\ MountFresh
    /\ UNCHANGED <<normVars, timers, inFlight>>

\* a Link of the navigation bar is followed
ClickNavItem(href) ==
    /\ screen = "page"
    /\ route' = href
    /\ screen' = ScreenOf(href, storage)
    /\ MountFresh
    /\ UNCHANGED <<normVars, timers, inFlight, storage>>

navItems == {"/dashboard", "/upload", "/invoices"}

\* the Logout item of the menu of the navigation bar
ClickLogout ==
    /\ screen = "page"
    /\ logout

AuthNext ==
    \/ \E path \in Routes : OpenRoute(path)
    \/ ProtectedRouteRedirect
    \/ \E value \in UsernameChoices : SetUsername(value)
    \/ \E value \in PasswordChoices : SetPassword(value)
    \/ SubmitLogin
    \/ \E href \in navItems : ClickNavItem(href)
    \/ ClickLogout
    \/ screen = "page" /\ \E selectedFile \in FileChoices : handleFileSelect(selectedFile)
    \/ screen = "page" /\ handleReset
    \/ screen = "page" /\ handleDragOver
    \/ screen = "page" /\ handleDragLeave
    \/ screen = "page" /\ route = "/invoices"
          /\ \E value \in VendorNameChoices : SetVendorName(value)
    \/ screen = "page" /\ route = "/invoices"
          /\ \E value \in InvoiceIdChoices : SetInvoiceId(value)

\* the effect of ProtectedRoute runs after the render
AuthFairness == WF_vars(ProtectedRouteRedirect)

SpecAuth == AuthInit /\ [][AuthNext]_vars /\ AuthFairness

----------------------------------------------------------------------------
(* Properties of the ApiClient operations, checked under SpecApi *)

ApiOps ==
    {"ApiClient.extractInvoice", "ApiClient.getInvoiceById", "ApiClient.getInvoicesByVendor"}

ApiReturned == call.op \in ApiOps /\ result # NotReturned

Unreachable == call.arg.kind = "rejected"

NonSuccess == call.arg.kind = "response" /\ ~ResponseOk(call.arg)

\* C17: when the fetch fails to reach the backend, each of the three
\* operations throws the 'cannot connect to backend' error.
C17_ConnectivityMessage ==
    (ApiReturned /\ Unreachable) => result = Throw(ErrCannotConnect)

\* the message C18 names: the decoded body's message field, else the status text
ClaimedMessage ==
    IF call.arg.body.json
        THEN LET m == IF ReadThrows(call.arg.body.value) THEN Undefined
                      ELSE Get(call.arg.body.value, "message")
             IN IF m.t = "string" THEN m.s ELSE "undefined"
        ELSE call.arg.statusText

GenericMessage ==
    CASE call.op = "ApiClient.extractInvoice" -> "Failed to extract invoice"
      [] call.op = "ApiClient.getInvoiceById" -> "Failed to fetch invoice"
      [] OTHER -> "Failed to fetch invoices"

NonEmptyMessage(v) ==
    /\ v.t = "object"
    /\ "message" \in DOMAIN v
    /\ v.message.t = "string"
    /\ v.message.s # ""

----------------------------------------------------------------------------
(* Properties of the normalizer, checked under SpecNormalizer *)

Returned == result # NotReturned

NonEmptyString(v) == v.t = "string" /\ v.s # ""

\* the body is an object that carries an invoice identifier
HasInvoiceId(body) ==
    body.t = "object" /\ "InvoiceId" \in DOMAIN body /\ NonEmptyString(body.InvoiceId)

\* the raw line items a body carries
RawItemsOf(body) ==
    IF body.t = "object" /\ "Items" \in DOMAIN body /\ body.Items.t = "array"
    THEN body.Items.elems
    ELSE <<>>

Range(s) == {s[i] : i \in 1..Len(s)}

SingleInvoiceCall == call.op = "normalizeInvoiceResponse" /\ Returned

\* C1: normalizeInvoiceResponse succeeds exactly when its input is present and
\* carries a (non-empty) InvoiceId; then the invoice returned has that very
\* invoiceId. On every other input (null, absent, not an object, InvoiceId
\* missing, null or empty) it throws one of its two structural errors and
\* returns no invoice.
C1_SucceedsIffInvoiceId ==
    SingleInvoiceCall =>
        IF HasInvoiceId(call.arg)
        THEN result.ok /\ result.val.invoiceId = call.arg.InvoiceId
        ELSE /\ ~result.ok
             /\ result.val = Undefined
             /\ result.err \in {ErrNullResponse, ErrMissingInvoiceId}

C1_Witness ==
    /\ SingleInvoiceCall
    /\ HasInvoiceId(call.arg)
    /\ result.ok
    /\ result.val.invoiceId = Str("INV-1")
    /\ Len(result.val.items.elems) = 2

\* the invoices a successful call returned, whatever the path
ReturnedInvoices ==
    IF ~(Returned /\ result.ok) THEN {}
    ELSE CASE call.op = "extractInvoice" -> {result.val.invoice}
           [] call.op = "getInvoicesByVendor" -> Range(result.val.elems)
           [] OTHER -> {result.val}

\* C2: every invoice returned by any of the three normalizer paths has a
\* non-empty invoiceId (a body without an identifier never yields an invoice).
C2_InvoiceIdNeverEmpty ==
    \A inv \in ReturnedInvoices : NonEmptyString(inv.invoiceId)

\* the retention rule as the claim words it
Retained(item) ==
    /\ NonEmptyString(Get(item, "Description")) \/ NonEmptyString(Get(item, "Name"))
    /\ Get(item, "Amount").t = "number"
    /\ Get(item, "Amount").n # 0

\* C3: on the single-invoice path a raw line item shows in the output (as its
\* canonical line item) if and only if it has a non-empty Description or Name
\* and an Amount that is non-null, not NaN and non-zero; items failing this are
\* dropped and the call still succeeds.
C3_ItemRetainedIff ==
    (SingleInvoiceCall /\ HasInvoiceId(call.arg)) =>
        /\ result.ok
        /\ \A i \in 1..Len(RawItemsOf(call.arg)) :
              LET item == RawItemsOf(call.arg)[i]
              IN  (InvoiceItem(item) \in Range(result.val.items.elems)) <=> Retained(item)

C3_Witness ==
    /\ SingleInvoiceCall
    /\ result.ok
    /\ \E i, j \in 1..Len(RawItemsOf(call.arg)) :
          /\ Retained(RawItemsOf(call.arg)[i])
          /\ ~Retained(RawItemsOf(call.arg)[j])
    /\ Len(result.val.items.elems) = 1

\* the elements of s that equal no earlier element, in their order
FirstOccurrences(s) ==
    FilterSeq(s, [i \in 1..Len(s) |-> \A j \in 1..(i - 1) : s[j] # s[i]])

\* C4: on the single-invoice path the output items are the retained items,
\* mapped, with every item that equals an earlier one in description, quantity,
\* unitPrice and amount removed: first occurrences survive in their original
\* order, items differing in any field all survive, and no two output items
\* are equal.
C4_DedupOnFourFields ==
    (SingleInvoiceCall /\ result.ok) =>
        LET out == result.val.items.elems
        IN  /\ out = FirstOccurrences(MappedItems(RawItemsOf(call.arg)))
            /\ \A i, j \in 1..Len(out) : i # j => out[i] # out[j]

C4_Witness ==
    /\ SingleInvoiceCall
    /\ result.ok
    /\ Len(MappedItems(RawItemsOf(call.arg))) = 3
    /\ Len(result.val.items.elems) = 2
    /\ result.val.items.elems[1].unitPrice # result.val.items.elems[2].unitPrice
    /\ result.val.items.elems[1].description = result.val.items.elems[2].description

VendorCall == call.op = "getInvoicesByVendor" /\ Returned

\* the three documented shapes of a vendor-list body
IsEnvelope(body) ==
    body.t = "object" /\ "invoices" \in DOMAIN body /\ NonEmptyString(body.VendorName)
IsBareArray(body) == body.t = "array"
IsSingleRecord(body) == ~IsEnvelope(body) /\ HasInvoiceId(body)

\* the records of a vendor-list body of one of the three shapes
RecordsOf(body) ==
    IF IsEnvelope(body)
    THEN (IF body.invoices.t = "array" THEN body.invoices.elems ELSE <<>>)
    ELSE IF IsBareArray(body) THEN body.elems
    ELSE <<body>>

AllValidRecords(records) ==
    \A i \in 1..Len(records) : records[i].t = "object" /\ HasInvoiceId(records[i])

\* C5: an envelope holding k single-invoice records yields k invoices, a bare
\* array of N records N invoices and a bare single record one invoice, in input
\* order, each the single-invoice normalization of its record.
C5_ShapesYieldLengths ==
    (/\ VendorCall
     /\ \/ IsEnvelope(call.arg) /\ call.arg.invoices.t = "array"
        \/ IsBareArray(call.arg)
        \/ IsSingleRecord(call.arg)
     /\ AllValidRecords(RecordsOf(call.arg))) =>
        /\ result.ok
        /\ Len(result.val.elems) = Len(RecordsOf(call.arg))
        /\ \A i \in 1..Len(RecordsOf(call.arg)) :
              result.val.elems[i] = normalizeInvoiceResponse(RecordsOf(call.arg)[i]).val

C5_Witness ==
    /\ VendorCall
    /\ IsEnvelope(call.arg)
    /\ result.ok
    /\ Len(result.val.elems) = 3
    /\ result.val.elems[1].invoiceId = Str("INV-B")
    /\ result.val.elems[3].invoiceId = Str("INV-A")

\* C6: an envelope whose invoices list is absent or empty yields the empty
\* sequence.
C6_EmptyEnvelopeYieldsEmpty ==
    (/\ VendorCall
     /\ IsEnvelope(call.arg)
     /\ \/ call.arg.invoices.t \in {"undefined", "null"}
        \/ call.arg.invoices = Arr(<<>>)) =>
        result.ok /\ result.val = Arr(<<>>)

\* C7: a body that is none of the three shapes makes the call fail with the
\* unexpected-format error.
C7_OtherShapesFormatError ==
    (/\ VendorCall
     /\ ~IsEnvelope(call.arg)
     /\ ~IsBareArray(call.arg)
     /\ ~IsSingleRecord(call.arg)) =>
        ~result.ok /\ result.err = ErrUnexpectedFormat

\* the line items a successful call returned, whatever the path
ReturnedItems ==
    UNION {IF inv.items.t = "array" THEN Range(inv.items.elems) ELSE {} :
             inv \in ReturnedInvoices}

\* typeof v === 'number'
IsNumber(v) == v.t \in {"number", "nan"}

\* C8: every line item produced by any path has a string description and
\* numeric quantity, unitPrice and amount (0 standing for an absent value).
C8_LineItemsTyped ==
    \A item \in ReturnedItems :
        /\ item.description.t = "string"
        /\ IsNumber(item.quantity)
        /\ IsNumber(item.unitPrice)
        /\ IsNumber(item.amount)

\* C9: on the extraction path the output items are the input Items, one for
\* one and in order: nothing is filtered out and no duplicate is removed.
C9_ExtractKeepsAllItems ==
    (/\ call.op = "extractInvoice"
     /\ Returned
     /\ result.ok
     /\ Get(Get(call.arg, "data"), "Items").t = "array") =>
        LET in == call.arg.data.Items.elems
            out == result.val.invoice.items.elems
        IN  /\ Len(out) = Len(in)
            /\ \A i \in 1..Len(in) :
                  /\ out[i].amount = Get(in[i], "Amount")
                  /\ out[i].description =
                        Or(Or(Get(in[i], "Description"), Get(in[i], "Name")), Str(""))

C9_Witness ==
    /\ call.op = "extractInvoice"
    /\ Returned
    /\ result.ok
    /\ result.val.invoice.items.t = "array"
    /\ Len(result.val.invoice.items.elems) = 3
    /\ result.val.invoice.items.elems[1] = result.val.invoice.items.elems[3]
    /\ result.val.invoice.items.elems[2].amount = Num(0)
    /\ result.val.invoice.items.elems[2].description = Str("Widget")

\* the elements of the list a vendor-list body carries, in an envelope or bare
ListedRecords(body) ==
    IF body.t = "array" THEN body.elems
    ELSE IF body.t = "object" /\ "invoices" \in DOMAIN body /\ body.invoices.t = "array"
    THEN body.invoices.elems
    ELSE <<>>

\* C28: if any element of the envelope's invoices list or of the bare array
\* is null or lacks InvoiceId, the whole call fails: no invoice of that
\* response is returned.
C28_AllOrNothing ==
    (/\ VendorCall
     /\ \E i \in 1..Len(ListedRecords(call.arg)) :
            ~HasInvoiceId(ListedRecords(call.arg)[i])) => ~result.ok

C28_Witness ==
    /\ VendorCall
    /\ Len(ListedRecords(call.arg)) = 2
    /\ HasInvoiceId(ListedRecords(call.arg)[1])
    /\ ListedRecords(call.arg)[2] = Null
    /\ ~result.ok
    /\ result.err = ErrNullResponse

----------------------------------------------------------------------------
(* Properties of the query engine, checked under Spec *)

\* the pipeline in the order the claim gives: status, start date, end date,
\* sort, slice
ClaimedProcessed ==
    ArraySort(EndFiltered(StartFiltered(StatusFiltered(StateArray(invoices), statusFilter),
                                        startDate),
                          endDate).elems,
              sortField, sortOrder)

ClaimedPage ==
    Slice(ClaimedProcessed, (currentPage - 1) * itemsPerPage, currentPage * itemsPerPage)

\* only a settling search replaces the fetched list
FetchedListKept == (invoices' # invoices) => (isLoading /\ ~isLoading')

\* C10: in every state the processed list and the page displayed are the
\* pipeline's value on the current inputs, and no step other than a search
\* settling changes the fetched list (the pipeline never reorders or shortens
\* it).
C10_PageIsPureFunction ==
    /\ [](processedInvoices = ClaimedProcessed /\ paginatedInvoices = ClaimedPage)
    /\ [][FetchedListKept]_vars

C10_Witness ==
    /\ Len(invoices) = 3
    /\ statusFilter = "pending"
    /\ startDate # ""
    /\ sortField = "totalAmount"
    /\ Len(processedInvoices) = 1
    /\ paginatedInvoices = processedInvoices

\* the identifiers of a list of invoices, in order
Ids(list) == [i \in 1..Len(list) |-> list[i].invoiceId.s]

Flip(order) == IF order = "asc" THEN "desc" ELSE "asc"

\* a click on the active field flips the direction; a click on another field
\* makes it the active field, ascending
SortToggleRule ==
    \A field \in SortFields :
        handleSortChange(field) =>
            IF field = sortField
            THEN sortField' = sortField /\ sortOrder' = Flip(sortOrder)
            ELSE sortField' = field /\ sortOrder' = "asc"

\* INV-A (amount 100) and INV-B (amount 200) sorted by totalAmount
AmountExample ==
    (/\ Range(Ids(invoices)) = {"INV-A", "INV-B"}
     /\ Len(invoices) = 2
     /\ statusFilter = "all" /\ startDate = "" /\ endDate = ""
     /\ sortField = "totalAmount")
    => Ids(processedInvoices) = IF sortOrder = "asc" THEN <<"INV-A", "INV-B">>
                                ELSE <<"INV-B", "INV-A">>

\* C12: a click on the header of the active sort field flips the direction and
\* keeps the field, a click on another header makes that field active with
\* ascending direction; INV-A (100) and INV-B (200) sorted by totalAmount show
\* [A, B] ascending and [B, A] after the next click on the same header.
C12_SortToggle == []AmountExample /\ [][SortToggleRule]_vars

C12_Witness ==
    /\ sortField = "totalAmount"
    /\ sortOrder = "desc"
    /\ statusFilter = "all" /\ startDate = "" /\ endDate = ""
    /\ Ids(invoices) = <<"INV-A", "INV-B">>
    /\ Ids(processedInvoices) = <<"INV-B", "INV-A">>

\* a step that changes a filter or the page size ends on page 1; a step that
\* changes the sort ends on the page it started on
PageResetRule ==
    /\ (\/ SetStatusFilter
        \/ SetStartDate
        \/ SetEndDate
        \/ SetItemsPerPage
        \/ ClearFilters
        \/ statusFilter' # statusFilter
        \/ startDate' # startDate
        \/ endDate' # endDate
        \/ itemsPerPage' # itemsPerPage) => currentPage' = 1
    /\ ((\E field \in SortFields : handleSortChange(field))
        \/ sortField' # sortField
        \/ sortOrder' # sortOrder) => currentPage' = currentPage

\* C13: changing the status filter, the start date, the end date or the page
\* size, and clearing the filters, sets the current page to 1; a click on a
\* sort header leaves the current page as it is.
C13_FiltersResetPage == [][PageResetRule]_vars

\* on page 3 of three, with a page size chosen (which led to page 1) and a
\* sort header clicked (which left the page alone)
C13_Witness ==
    /\ currentPage = 3
    /\ itemsPerPage = 5
    /\ sortField = "vendorName"
    /\ Len(paginatedInvoices) = 2

----------------------------------------------------------------------------
(* Properties of the query engine, checked under SpecEngine *)

\* the render of the chosen inputs has run
Rendered == call.op = "render" /\ Returned

Count(s, x) == Cardinality({i \in 1..Len(s) : s[i] = x})

IsPermutation(s, t) ==
    /\ Len(s) = Len(t)
    /\ \A x \in Range(s) \cup Range(t) : Count(s, x) = Count(t, x)

\* the list the three filters leave, before the sort
FilteredList ==
    EndFiltered(StartFiltered(StatusFiltered(StateArray(invoices), statusFilter),
                              startDate),
                endDate).elems

\* the key of the claim: parsed timestamp, number, lowercased string
KeyLess(a, b) == JsLess(SortKey(a, sortField), SortKey(b, sortField))

\* C11: after the sort the processed list is a permutation of the filtered
\* list, and no invoice stands before one with a smaller key (ascending) or
\* before one with a larger key (descending).
C11_SortedByKey ==
    Rendered =>
        /\ IsPermutation(processedInvoices, FilteredList)
        /\ \A i, j \in 1..Len(processedInvoices) :
              i < j => IF sortOrder = "asc"
                       THEN ~KeyLess(processedInvoices[j], processedInvoices[i])
                       ELSE ~KeyLess(processedInvoices[i], processedInvoices[j])

\* C14: the page displayed holds the records at positions (p-1)*s+1 .. p*s of
\* the processed list, min(s, max(0, n-(p-1)*s)) of them, and a page past the
\* last one is empty.
C14_PageIsSlice ==
    Rendered =>
        LET n == Len(processedInvoices)
            s == itemsPerPage
            p == currentPage
            size == Min(s, Max(0, n - (p - 1) * s))
        IN  paginatedInvoices = [k \in 1..size |-> processedInvoices[(p - 1) * s + k]]

C14_Witness ==
    /\ Rendered
    /\ Len(processedInvoices) = 12
    /\ itemsPerPage = 10
    /\ currentPage = 3
    /\ paginatedInvoices = <<>>

\* the day count of a date string of the model, -1 when it does not parse
Day(date) == IF DateValue(Str(date)).t = "number" THEN DateValue(Str(date)).n ELSE -1

Parses(inv) == inv.invoiceDate.t = "string" /\ Day(inv.invoiceDate.s) >= 0

\* the invoice date lies within the bounds that are set, both inclusive
InRange(inv) ==
    /\ startDate # "" => (Parses(inv) /\ Day(inv.invoiceDate.s) >= Day(startDate))
    /\ endDate # "" => (Parses(inv) /\ Day(inv.invoiceDate.s) <= Day(endDate))

\* the status equals the selected value up to case, or "all" is selected
StatusPasses(inv) ==
    \/ statusFilter = "all"
    \/ /\ inv.status.t = "string"
       /\ ToLowerCase(inv.status.s) = ToLowerCase(statusFilter)

\* C15: an invoice that passes the status filter is displayed exactly when its
\* parsed date is >= the start date (if set) and <= the end date (if set); a
\* date that does not parse is excluded as soon as one bound is set.
C15_DateRangeInclusive ==
    Rendered =>
        \A x \in Range(invoices) :
            StatusPasses(x) => ((x \in Range(processedInvoices)) <=> InRange(x))

C15_Witness ==
    /\ Rendered
    /\ startDate = "2024-02-01"
    /\ endDate = "2024-04-01"
    /\ {x.invoiceDate : x \in Range(invoices)} = {Str("2024-03-01"), Str("2024-04-01"), Str("")}
    /\ {x.invoiceDate : x \in Range(processedInvoices)} = {Str("2024-03-01"), Str("2024-04-01")}

\* C16: an invoice within the date range is displayed exactly when its status
\* equals the selected status without regard to case, or "all" is selected.
C16_StatusCaseInsensitive ==
    Rendered =>
        \A x \in Range(invoices) :
            InRange(x) => ((x \in Range(processedInvoices)) <=> StatusPasses(x))

C16_Witness ==
    /\ Rendered
    /\ statusFilter = "pending"
    /\ Len(invoices) = 3
    /\ \A x \in Range(invoices) : x.status = Str("Pending")
    /\ Len(processedInvoices) = 3

\* the position of an invoice in a list that holds it once
PositionIn(list, x) == CHOOSE i \in 1..Len(list) : list[i] = x

\* the two invoices have the same sort key
SameKey(a, b) == SortKey(a, sortField) = SortKey(b, sortField)

\* C25: invoices whose sort keys are equal (all of them under the always
\* empty dueDate) stand in the processed list in the order they have in the
\* filtered list, ascending and descending.
C25_TiesKeepOrder ==
    Rendered =>
        \A i, j \in 1..Len(processedInvoices) :
            (i < j /\ SameKey(processedInvoices[i], processedInvoices[j])) =>
                PositionIn(FilteredList, processedInvoices[i])
                    < PositionIn(FilteredList, processedInvoices[j])

----------------------------------------------------------------------------
(* More properties of the invoices page, checked under Spec *)

\* C26: after any sequence of searches, filter changes, page-size changes,
\* sort clicks and pager clicks, also pager clicks made while a search is in
\* flight, the current page is within 1..max(1, totalPages) of the processed
\* list.
C26_PageInRange ==
    /\ currentPage >= 1
    /\ currentPage <= Max(1, TotalPages(processedInvoices, itemsPerPage))

----------------------------------------------------------------------------
(* Properties of the pager, checked under SpecPager *)

PagerReturned == call.op = "pager" /\ result # NotReturned

\* C30: with the pager shown (totalPages > 1) the page-number buttons are
\* min(5, totalPages) distinct consecutive numbers within 1..totalPages, the
\* current page among them when it is within 1..totalPages; Previous does not
\* lead below page 1 nor Next above totalPages.
C30_PagerWindow ==
    PagerReturned =>
        LET page == call.arg.page
            totalPages == call.arg.totalPages
        IN  /\ result.val.t = "buttons" =>
                 LET numbers == result.val.numbers
                 IN  /\ Len(numbers) = Min(5, totalPages)
                     /\ \A k \in 1..(Len(numbers) - 1) : numbers[k + 1] = numbers[k] + 1
                     /\ \A k \in 1..Len(numbers) : numbers[k] \in 1..totalPages
                     /\ page \in 1..totalPages => \E k \in 1..Len(numbers) : numbers[k] = page
            /\ result.val.t = "previous" => result.val.n >= 1
            /\ result.val.t = "next" => result.val.n <= totalPages

\* nine pages, the current one in the middle: the window is 3..7
C30_Witness ==
    /\ PagerReturned
    /\ call.arg.page = 5
    /\ call.arg.totalPages = 9
    /\ result.val.t = "buttons"
    /\ result.val.numbers = <<3, 4, 5, 6, 7>>

----------------------------------------------------------------------------
(* Properties of the handlers that fetch, checked under SpecRequests *)

Blank(s) == s \in {"", " ", "  "}

\* a refused submission changes nothing of the search and raises the error
EmptySearchRule ==
    /\ (handleSearchByVendor /\ Blank(vendorName)) =>
          /\ UNCHANGED <<invoices, isLoading, hasSearched, searchType, currentPage, inFlight>>
          /\ toast' = <<Toast("error", "Please enter a vendor name")>>
    /\ (handleSearchById /\ Blank(invoiceId)) =>
          /\ UNCHANGED <<invoices, isLoading, hasSearched, searchType, currentPage, inFlight>>
          /\ toast' = <<Toast("error", "Please enter an invoice ID")>>

\* C20: a vendor search or an invoice-ID search submitted with an empty or
\* whitespace-only field sends no request and leaves the result list, the
\* loading flag, the has-searched flag, the search type and the current page
\* unchanged; the one thing it does is raise an error notification.
C20_EmptySearchRefused == [][EmptySearchRule]_vars

\* a whitespace-only vendor name has just been refused
C20_Witness ==
    /\ vendorName = "  "
    /\ toast = <<Toast("error", "Please enter a vendor name")>>
    /\ ~isLoading
    /\ ~hasSearched
    /\ inFlight = <<>>

AllHaveInvoiceId(v) ==
    /\ v.t = "array"
    /\ \A i \in 1..Len(v.elems) : HasInvoiceId(v.elems[i])

\* the decoded body has the structure the operation expects
ValidPayload(op, v) ==
    CASE op = "handleUpload" ->
            v.t = "object" /\ "data" \in DOMAIN v /\ HasInvoiceId(v.data)
      [] op = "handleSearchByVendor" ->
            \/ AllHaveInvoiceId(v)
            \/ HasInvoiceId(v)
            \/ v.t = "object" /\ "invoices" \in DOMAIN v /\ AllHaveInvoiceId(v.invoices)
      [] OTHER -> HasInvoiceId(v)

\* the four failure classes: no connection, a non-success status, a body
\* that does not decode, a decoded body of the wrong structure
Failed(op, http) ==
    \/ http.kind = "rejected"
    \/ http.status < 200
    \/ http.status > 299
    \/ ~http.body.json
    \/ ~ValidPayload(op, http.body.value)

ErrorNotified == \E i \in 1..Len(toast') : toast'[i].kind = "error"

OneSent == Len(inFlight') = Len(inFlight) + 1
OneSettled == Len(inFlight') = Len(inFlight) - 1

\* each submission sends one request; each settlement takes one request off
\* the network, sends none, clears the loading flag and notifies a failure
RequestRule ==
    /\ (handleSearchByVendor /\ ~Blank(vendorName)) => OneSent
    /\ (handleSearchById /\ ~Blank(invoiceId)) => OneSent
    /\ handleUpload => OneSent
    /\ fetchInvoice => OneSent
    /\ \A http \in RequestVendorExchanges :
          VendorSearchSettles(http) =>
              /\ OneSettled
              /\ ~isLoading'
              /\ Failed("handleSearchByVendor", http) => ErrorNotified
    /\ \A http \in RequestInvoiceExchanges :
          IdSearchSettles(http) =>
              /\ OneSettled
              /\ ~isLoading'
              /\ Failed("handleSearchById", http) => ErrorNotified
    /\ \A http \in RequestExtractExchanges :
          UploadSettles(http) =>
              /\ OneSettled
              /\ ~isUploading'
              /\ Failed("handleUpload", http) => ErrorNotified
    /\ \A http \in RequestInvoiceExchanges :
          FetchInvoiceSettles(http) =>
              /\ OneSettled
              /\ ~detailsLoading'
              /\ Failed("fetchInvoice", http) => ErrorNotified

\* with the loading flag down the forms can be submitted
ResubmitRule ==
    /\ (route = "/invoices" /\ ~isLoading) =>
          ENABLED handleSearchByVendor /\ ENABLED handleSearchById
    /\ (route = "/upload" /\ file # Null /\ ~isUploading) => ENABLED handleUpload

\* C19: every submitted vendor search, ID search, upload and detail fetch
\* sends exactly one request and is never sent again by the program; a
\* failure of any of the four classes is notified, the loading flag of the
\* page eventually returns to false, and the action can be submitted again.
C19_OneRequestReported ==
    /\ [][RequestRule]_vars
    /\ []ResubmitRule
    /\ (isLoading ~> ~isLoading)
    /\ (isUploading ~> ~isUploading)
    /\ (Sent("fetchInvoice") ~> ~detailsLoading)

----------------------------------------------------------------------------
(* Failed searches of the invoices page, checked under Spec *)

\* a search that settles with a failure leaves no invoice on the page
SearchFailureRule ==
    /\ \A http \in PageVendorExchanges :
          (VendorSearchSettles(http) /\ Failed("handleSearchByVendor", http)) =>
              /\ invoices' = <<>>
              /\ processedInvoices' = <<>>
              /\ paginatedInvoices' = <<>>
    /\ \A http \in PageInvoiceExchanges :
          (IdSearchSettles(http) /\ Failed("handleSearchById", http)) =>
              /\ invoices' = <<>>
              /\ processedInvoices' = <<>>
              /\ paginatedInvoices' = <<>>

\* C27: when a vendor search or an ID search fails, for whatever reason, the
\* result list becomes empty: the invoices of an earlier successful search
\* are not displayed after a later search has failed.
C27_FailedSearchClearsList == [][SearchFailureRule]_vars

\* a filter chosen on the results of an earlier search, and the list emptied
\* by the failure just notified
C27_Witness ==
    /\ statusFilter = "pending"
    /\ hasSearched
    /\ ~isLoading
    /\ invoices = <<>>
    /\ paginatedInvoices = <<>>
    /\ toast = <<Toast("error", "Failed to fetch")>>

----------------------------------------------------------------------------
(* Properties of the upload page and the details page, checked under        *)
(* SpecRequests                                                              *)

\* a PDF (by its type, or by its name when the browser gives no type), a
\* JPEG, a PNG or a GIF
AcceptedKind(f) ==
    \/ f.type \in {"application/pdf", "image/jpeg", "image/jpg", "image/png", "image/gif"}
    \/ f.name \in {"invoice.pdf", "SCAN.PDF", "limit.pdf", "huge.pdf"}

\* the file passes both checks: kind, and at most 10 MB
Accepted(f) == AcceptedKind(f) /\ f.size <= 10485760

\* a file offered by the dialog or by a drop is taken only if accepted; a
\* rejected one is notified and leaves the selection as it was
SelectionRule ==
    \A f \in FileChoices :
        (handleFileSelect(f) \/ handleDrop(f)) =>
            IF Accepted(f) THEN file' = f
            ELSE /\ file' = file
                 /\ \E i \in 1..Len(toast') : toast'[i].kind = "error"

UploadsInFlight == {i \in 1..Len(inFlight) : inFlight[i].from = "handleUpload"}

\* C21: a file becomes the selected file only if it is a PDF, JPEG, PNG or
\* GIF of at most 10 MB; any other file is rejected with a notification and
\* leaves the selection unchanged; so whatever is dropped, selected, cleared
\* and uploaded, the extract request is sent only with a file that passed
\* both checks.
C21_OnlyAcceptedFiles ==
    /\ [][SelectionRule]_vars
    /\ [](file # Null => Accepted(file))
    /\ [](\A i \in UploadsInFlight : Accepted(inFlight[i].arg))

\* a request is on its way with the 10 MB file while a too large image,
\* offered next, was rejected and the selection kept
C21_Witness ==
    /\ file = LimitPdf
    /\ \E i \in UploadsInFlight : inFlight[i].arg = LimitPdf
    /\ toast = <<Toast("error", "File size exceeds 10MB limit.")>>

\* Save copies the draft to the displayed record, Cancel the displayed record
\* to the draft, an edit changes one field of the draft; none sends a request
EditRule ==
    /\ handleSave => (invoice' = editedInvoice /\ UNCHANGED inFlight)
    /\ handleCancel => (editedInvoice' = invoice /\ UNCHANGED <<invoice, inFlight>>)
    /\ \A edit \in EditChoices :
          handleInputChange(edit.field, edit.value) =>
              /\ editedInvoice' = [editedInvoice EXCEPT ![edit.field] = edit.value]
              /\ UNCHANGED <<invoice, inFlight>>

\* C23: Save replaces the displayed record with the draft and Cancel resets
\* the draft to the displayed record; neither Save, Cancel nor a field edit
\* sends a backend request, and a field edit changes the draft only, never
\* the displayed record, until Save.
C23_EditIsLocal == [][EditRule]_vars

\* a vendor name was saved, and an amount typed since is in the draft only
C23_Witness ==
    /\ isEditing
    /\ invoice # Null
    /\ invoice.vendorName = Str("Globex")
    /\ editedInvoice.totalAmount = Num(250)
    /\ invoice.totalAmount # Num(250)
    /\ inFlight = <<>>

\* C29: whenever edit mode is off the draft equals the displayed record,
\* after any sequence of fetch completion (success or failure), Edit, field
\* changes, Save and Cancel.
C29_DraftEqualsDisplayed == ~isEditing => editedInvoice = invoice

\* edit mode left with a saved change
C29_Witness ==
    /\ ~isEditing
    /\ invoice # Null
    /\ invoice.totalAmount = Num(250)
    /\ editedInvoice = invoice

\* the identifier in the answer of POST /extract
ExtractedInvoiceId(http) == http.body.value.data.InvoiceId.s

\* a successful upload schedules the page of its invoice, a failed one nothing
UploadOutcomeRule ==
    \A http \in RequestExtractExchanges :
        UploadSettles(http) =>
            IF Failed("handleUpload", http)
            THEN timers' = timers
            ELSE ("/invoice/" \o ExtractedInvoiceId(http)) \in timers'

\* the page is entered only by the navigation an upload scheduled
NavigationRule ==
    route' # route => (route' \in timers /\ timers' = timers \ {route'})

\* the amount as the details page prints it: 500 as "$500.00"
Dollars(amount) == "$" \o ToString(amount.n) \o ".00"

\* the details page shows the total of the record served for the invoice
TotalRule ==
    \A http \in RequestInvoiceExchanges :
        (FetchInvoiceSettles(http) /\ ~Failed("fetchInvoice", http)) =>
            /\ invoice' # Null
            /\ ~detailsLoading'
            /\ DisplayedTotal' = Dollars(http.body.value.InvoiceTotal)

\* C22: a successful upload answered with data.InvoiceId = X is followed by
\* the navigation to /invoice/X, where the total displayed is the
\* InvoiceTotal of the invoice; a failed upload is never followed by a
\* navigation.
C22_UploadNavigates ==
    /\ [][UploadOutcomeRule /\ NavigationRule /\ TotalRule]_vars
    /\ \A path \in NavigationTargets : (path \in timers) ~> (route = path)

\* the parts of C22 about uploads the code treats as it should
UploadOutcomeOfValid ==
    \A http \in RequestExtractExchanges :
        (UploadSettles(http) /\ ~Failed("handleUpload", http)) =>
            ("/invoice/" \o ExtractedInvoiceId(http)) \in timers'

UploadOutcomeOfThrown ==
    \A http \in RequestExtractExchanges :
        (UploadSettles(http) /\ ~ApiClientExtractInvoice(http).ok) => timers' = timers

C22_ExceptMissingId ==
    /\ [][UploadOutcomeOfValid /\ UploadOutcomeOfThrown /\ NavigationRule /\ TotalRule]_vars
    /\ \A path \in NavigationTargets : (path \in timers) ~> (route = path)

-----------------------------------------------------------------------------
(* Properties of the authentication, checked under SpecAuth *)

\* the flag is set by no step but a login with the accepted pair, and removed
\* by no step but the Logout item; nothing else is ever written to storage
FlagRule ==
    /\ (~isAuthenticated /\ isAuthenticated') =>
          /\ SubmitLogin
          /\ loginForm.username = "admin"
          /\ loginForm.password = "admin"
    /\ (isAuthenticated /\ ~isAuthenticated') => ClickLogout
    /\ storage' \subseteq {AuthKey}

\* the content of a protected page is on the screen only with the flag set
GuardedPages == (route \in ProtectedPages /\ screen = "page") => isAuthenticated

\* a protected route opened without the flag ends on the login page
RedirectedToLogin ==
    (route \in ProtectedPages /\ ~isAuthenticated) ~> (route \notin ProtectedPages)

====
